---- MODULE Spec2Model ----
(***************************************************************************)
(* The WebSocket session proxy of the Cloudflare Worker (src/src/worker.js) *)
(* as a state machine: one /ws request, from validation through the         *)
(* signed-URL request and the upstream handshake to the forwarding phase    *)
(* with its two keepalive timers and the four close/error listeners.        *)
(*                                                                          *)
(* Sockets follow the Workers runtime: readyState is 1 (OPEN) until either  *)
(* direction is closed, send() after the socket's own close() throws a      *)
(* TypeError, close() on a socket that is closing or closed does nothing,   *)
(* and a socket whose close() was called still delivers the frames the peer *)
(* sent before it saw the close.                                            *)
(*                                                                          *)
(* Time is counted in milliseconds and advances in steps of TimeUnit.       *)
(***************************************************************************)
EXTENDS Integers, Sequences, FiniteSets, TLC

VARIABLES
    pc,                  \* position of the async fetch handler
    httpStatus,          \* status of the Response the handler returned, "none" before
    server,              \* the Worker's end of the WebSocketPair
    upstream,            \* upstreamResp.webSocket
    pingInterval,        \* [armed, due]: the 25 s interval
    healthCheckInterval, \* [armed, due]: the 45 s interval
    lastActivity,
    connectionStartTime,
    isConnected,
    signedUrl,
    wsHeaders,           \* header names of the upstream handshake request
    listeners,           \* TRUE once the message/close/error listeners are attached
    now,                 \* Date.now()
    reqStart,            \* time at which the pending fetch was issued
    signReqs,            \* signed-URL requests issued
    handshakeReqs,       \* upstream handshake requests issued
    last,                \* the last step taken and the frames it sent
    everOpen,            \* isConnected has been true
    lastMsg,             \* time of the last frame received from either socket
    events,              \* frames received so far
    clientSent,          \* frames sent to the client so far
    firstDown,           \* the socket whose close or error event came first
    fwd,                 \* per direction, the arrival numbers of the frames relayed
    checks,              \* per health check so far, whether it sent the stats
    peer,                \* the closure state of a second /ws invocation
    hook,                \* /convai-hook: the provider's store and the requests in flight
    app,                 \* the Express app: environment, project store, last response
    node                 \* the closure of one connection to the Node /ws proxy

\* the state of one /ws invocation, with the clock and the history variables
session == <<pc, httpStatus, server, upstream, pingInterval, healthCheckInterval,
             lastActivity, connectionStartTime, isConnected, signedUrl, wsHeaders,
             listeners, now, reqStart, signReqs, handshakeReqs, last, everOpen,
             lastMsg, events, clientSent, firstDown, fwd, checks>>

\* what no callback of that invocation can reach
others == <<peer, hook, app, node>>

vars == <<session, others>>

----------------------------------------------------------------------------
(* Bounds *)

MaxTime == 27       \* the clock stops after MaxTime units
MaxWait == 2        \* units the provider may leave the handshake unanswered
MaxEvents == 2      \* frames received per session
MaxPairTime == 10   \* the clock of two interleaved sessions stops after MaxPairTime units
MaxKeyLen == 12     \* characters of the longest API key
MaxStatsTime == 150 \* the clock of the stats cadence stops after MaxStatsTime units

(* Program constants, in milliseconds *)

SignTimeout == 5000
PingPeriod == 25000
HealthPeriod == 45000
IdleThreshold == 90000
StatsWindow == 120000
PreviewLimit == 10

TimeUnit == SignTimeout   \* the greatest common divisor of the constants above

----------------------------------------------------------------------------
(* Sockets *)

NoSocket ==
    [exists |-> FALSE, accepted |-> FALSE, closedOut |-> FALSE, closedIn |-> FALSE,
     aborted |-> FALSE, closeFired |-> FALSE, errorFired |-> FALSE,
     closeCalls |-> 0, lateCloses |-> 0, closeCode |-> 0]

NewSocket == [NoSocket EXCEPT !.exists = TRUE]

accept_Late(ws) == ws

accept(ws) == [ws EXCEPT !.accepted = TRUE]

readyState_ClosingIsOpen(ws) ==
    IF ws.aborted \/ (ws.closedIn /\ ws.closedOut) THEN 3 ELSE 1

\* ws.readyState: 1 OPEN, 2 CLOSING, 3 CLOSED
readyState(ws) ==
    IF ws.aborted \/ (ws.closedIn /\ ws.closedOut) THEN 3
    ELSE IF ws.closedIn \/ ws.closedOut THEN 2
    ELSE 1

\* ws.send(x) throws after ws.close() was called
sendThrows(ws) == ws.closedOut

\* ws.send(x) puts a frame on the wire
sendDelivers(ws) == ws.accepted /\ ~ws.closedOut /\ ~ws.aborted

\* ws.close(code): nothing when close() was called before or the socket is
\* gone; code 1005 stands for a close() without a code. closeCalls counts the
\* calls, lateCloses those made on a socket that was not open
close(ws, code) ==
    LET counted == [ws EXCEPT !.closeCalls = @ + 1,
                              !.lateCloses = IF readyState(ws) = 1 THEN @ ELSE @ + 1]
    IN  IF ws.closedOut \/ ws.aborted
        THEN counted
        ELSE [counted EXCEPT !.closedOut = TRUE, !.closeCode = code]

safeClose_Skipped(ws) == ws

safeClose_NoGuard(ws) == IF ws.exists THEN close(ws, 1005) ELSE ws

safeClose(ws) ==
    IF ws.exists /\ readyState(ws) = 1 THEN close(ws, 1005) ELSE ws

----------------------------------------------------------------------------
(* Timers *)

NoTimer == [armed |-> FALSE, due |-> 0]

setInterval(period) == [armed |-> TRUE, due |-> now + period]

cleanup_KeepsHealthCheck == [ping |-> NoTimer, health |-> healthCheckInterval]

\* cleanup(): the two intervals after clearInterval
cleanup == [ping |-> NoTimer, health |-> NoTimer]

----------------------------------------------------------------------------
(* Frames *)

Frame(type, text, status) == [type |-> type, text |-> text, status |-> status]

NoFrames == << >>

Step(name, arg, toClient, toUpstream) ==
    [name |-> name, arg |-> arg, toClient |-> toClient, toUpstream |-> toUpstream]

----------------------------------------------------------------------------
(* URLs: what the conditions of the handler read from a URL string *)

Url(src, agentQuery, token, convSig) ==
    [defined |-> TRUE, src |-> src, agentQuery |-> agentQuery,
     token |-> token, convSig |-> convSig]

\* signedUrlData.signed_url of a body without that field
Undefined ==
    [defined |-> FALSE, src |-> "none", agentQuery |-> FALSE,
     token |-> FALSE, convSig |-> FALSE]

\* wss://<base>/v1/convai/conversation?agent_id=<id>
PublicAgentUrl == Url("fallback", TRUE, FALSE, FALSE)

\* the strings the provider may put in signed_url
ProviderUrls ==
    {Url("signed", TRUE, FALSE, TRUE), Url("signed", TRUE, TRUE, FALSE),
     Url("signed", TRUE, FALSE, FALSE), Url("signed", FALSE, FALSE, FALSE)}

\* outcomes of the signed-URL request other than the timeout
SignOutcomes ==
    [kind : {"ok"}, url : ProviderUrls]
        \cup [kind : {"noField", "badJson", "notOk", "throws"}, url : {Undefined}]

SigningResult_NoFallback(o) == IF o.kind = "ok" THEN o.url ELSE Undefined

\* the value of signedUrl after the try/catch of step 1
SigningResult(o) ==
    CASE o.kind = "ok" -> o.url
      [] o.kind = "noField" -> Undefined
      [] OTHER -> PublicAgentUrl

UsesApiKeyHeader_IgnoresToken(url) == url.agentQuery /\ ~url.convSig

\* the three includes() tests on the URL string
UsesApiKeyHeader(url) == url.agentQuery /\ ~url.token /\ ~url.convSig

\* the headers the handler itself decides on; Sec-WebSocket-Key and
\* Sec-WebSocket-Extensions are copied from the client's request when present
HandshakeHeaders(url) ==
    {"Upgrade", "Connection", "Sec-WebSocket-Version"}
        \cup (IF UsesApiKeyHeader(url) THEN {"xi-api-key"} ELSE {})

----------------------------------------------------------------------------
(* Handshake outcomes *)

Statuses == {"101", "204", "403", "404", "500"}

\* a response (only a 101 can carry a webSocket) or a rejected fetch
HandshakeOutcomes ==
    [kind : {"response"}, status : {"101"}, socket : BOOLEAN]
        \cup [kind : {"response"}, status : Statuses \ {"101"}, socket : {FALSE}]
        \cup [kind : {"throws"}, status : {"none"}, socket : {FALSE}]

AuthText == "Authentication failed - check API key and agent permissions"
NotFoundText == "Agent not found - verify agent ID"
GenericText == "Connection failed: <status> <body>"
CaughtText == "Connection failed: <message>"
NoSocketText == "Invalid WebSocket upgrade response"
IdleText == "Connection timeout due to inactivity"
LostText == "Connection to ElevenLabs lost"

errorMessage_Unclassified(status) == GenericText

errorMessage(status) ==
    IF status = "403" THEN AuthText
    ELSE IF status = "404" THEN NotFoundText
    ELSE GenericText

\* new Response(body, {status}) throws for a status that allows no body
ResponseThrows(status) == status \in {"101", "204", "205", "304"}

\* the catch (connectionError) block, entered with the server socket as it is
\* and the frames sent so far
CatchConnectionError_NoClose(srv, frames) ==
    [threw |-> FALSE, server |-> srv, frames |-> frames, http |-> "502"]

CatchConnectionError_Silent(srv, frames) ==
    IF sendThrows(srv)
    THEN [threw |-> TRUE, server |-> srv, frames |-> frames, http |-> "none"]
    ELSE [threw |-> FALSE, server |-> close(srv, 1011), frames |-> frames, http |-> "502"]

CatchConnectionError(srv, frames) ==
    IF sendThrows(srv)
    THEN [threw |-> TRUE, server |-> srv, frames |-> frames, http |-> "none"]
    ELSE [threw |-> FALSE, server |-> close(srv, 1011),
          frames |-> IF sendDelivers(srv)
                     THEN Append(frames, Frame("error", CaughtText, "none"))
                     ELSE frames,
          http |-> "502"]

\* the branch for a status other than 101
Refused(srv, status) ==
    LET sent == <<Frame("error", errorMessage(status), status)>>
        closed == close(srv, 1008)
    IN  IF ResponseThrows(status)
        THEN CatchConnectionError(closed, sent)
        ELSE [threw |-> FALSE, server |-> closed, frames |-> sent, http |-> status]

\* the branch for a 101 response without a webSocket
NoWebSocket(srv) ==
    [threw |-> FALSE, server |-> close(srv, 1011),
     frames |-> <<Frame("error", NoSocketText, "none")>>, http |-> "502"]

----------------------------------------------------------------------------
(* The fetch handler up to its return *)

SessionInit ==
    /\ pc = "init"
    /\ httpStatus = "none"
    /\ server = NoSocket
    /\ upstream = NoSocket
    /\ pingInterval = NoTimer
    /\ healthCheckInterval = NoTimer
    /\ lastActivity = 0
    /\ connectionStartTime = 0
    /\ isConnected = FALSE
    /\ signedUrl = Undefined
    /\ wsHeaders = {}
    /\ listeners = FALSE
    /\ now = 0
    /\ reqStart = 0
    /\ signReqs = 0
    /\ handshakeReqs = 0
    /\ last = Step("none", "none", NoFrames, NoFrames)
    /\ everOpen = FALSE
    /\ lastMsg = 0
    /\ events = 0
    /\ clientSent = 0
    /\ firstDown = "none"
    /\ fwd = [up |-> << >>, client |-> << >>]
    /\ checks = << >>

\* no second invocation, no hook request and no app request
Idle == [on |-> FALSE]

Init == SessionInit /\ peer = Idle /\ hook = Idle /\ app = Idle /\ node = Idle

\* GET /ws: validation, accept, and the signed-URL request
Request(upgrade, apiKey, agentId) ==
    /\ pc = "init"
    /\ IF ~upgrade
       THEN /\ pc' = "returned"
            /\ httpStatus' = "426"
            /\ UNCHANGED <<server, signReqs, reqStart, lastActivity, connectionStartTime>>
       ELSE IF ~apiKey \/ ~agentId
       THEN /\ pc' = "returned"
            /\ httpStatus' = "500"
            /\ UNCHANGED <<server, signReqs, reqStart, lastActivity, connectionStartTime>>
       ELSE /\ pc' = "signing"
            /\ server' = accept(NewSocket)
            /\ lastActivity' = now
            /\ connectionStartTime' = now
            /\ signReqs' = signReqs + 1
            /\ reqStart' = now
            /\ UNCHANGED httpStatus
    /\ last' = Step("Request", "none", NoFrames, NoFrames)
    /\ UNCHANGED <<upstream, pingInterval, healthCheckInterval, isConnected, signedUrl,
                   wsHeaders, listeners, now, handshakeReqs, everOpen, lastMsg, events,
                   clientSent, firstDown, fwd, checks, others>>

\* from the end of step 1 to the await of the handshake request
Connect(url, name, arg) ==
    /\ signedUrl' = url
    /\ last' = Step(name, arg, NoFrames, NoFrames)
    /\ IF ~url.defined
       THEN \* signedUrl.split throws outside of any try
            /\ pc' = "threw"
            /\ UNCHANGED <<wsHeaders, handshakeReqs, reqStart>>
       ELSE /\ pc' = "handshake"
            /\ wsHeaders' = HandshakeHeaders(url)
            /\ handshakeReqs' = handshakeReqs + 1
            /\ reqStart' = now
    /\ UNCHANGED <<httpStatus, server, upstream, pingInterval, healthCheckInterval,
                   lastActivity, connectionStartTime, isConnected, listeners, now,
                   signReqs, everOpen, lastMsg, events, clientSent, firstDown, fwd, checks, others>>

\* the signed-URL request settles before its timeout
SignRespond(o) ==
    /\ pc = "signing"
    /\ now - reqStart < SignTimeout
    /\ Connect(SigningResult(o), "SignRespond", o.kind)

\* AbortSignal.timeout(5000) rejects the signed-URL request
SignTimedOut ==
    /\ pc = "signing"
    /\ now - reqStart >= SignTimeout
    /\ Connect(PublicAgentUrl, "SignTimedOut", "timeout")

\* the handshake request fails: non-101, 101 without a socket, or a rejection
HandshakeFailed(o) ==
    LET r == IF o.kind = "throws" THEN CatchConnectionError(server, NoFrames)
             ELSE IF o.status # "101" THEN Refused(server, o.status)
             ELSE NoWebSocket(server)
    IN  /\ pc' = IF r.threw THEN "threw" ELSE "returned"
        /\ httpStatus' = r.http
        /\ server' = r.server
        /\ pingInterval' = cleanup.ping
        /\ healthCheckInterval' = cleanup.health
        /\ last' = Step("HandshakeRespond", o.status, r.frames, NoFrames)
        /\ clientSent' = clientSent + Len(r.frames)
        /\ UNCHANGED <<upstream, lastActivity, connectionStartTime, isConnected,
                       listeners, everOpen, lastMsg>>

WelcomeText == "Connected to ElevenLabs ConvAI"

welcome_Missing == NoFrames

\* the connection success message
welcome == <<Frame("info", WelcomeText, "none")>>

\* 101 with a socket: accept, welcome, timers, listeners, Response 101
HandshakeOpened ==
    /\ pc' = "returned"
    /\ httpStatus' = "101"
    /\ upstream' = accept(NewSocket)
    /\ isConnected' = TRUE
    /\ everOpen' = TRUE
    /\ lastActivity' = now
    /\ connectionStartTime' = now
    /\ lastMsg' = now
    /\ pingInterval' = setInterval(PingPeriod)
    /\ healthCheckInterval' = setInterval(HealthPeriod)
    /\ listeners' = TRUE
    /\ last' = Step("HandshakeRespond", "101",
                    welcome, NoFrames)
    /\ clientSent' = clientSent + Len(welcome)
    /\ UNCHANGED server

\* the upstream handshake request settles; nothing bounds the wait for it
HandshakeRespond(o) ==
    /\ pc = "handshake"
    /\ IF o.kind = "response" /\ o.status = "101" /\ o.socket
       THEN HandshakeOpened
       ELSE HandshakeFailed(o)
    /\ UNCHANGED <<signedUrl, wsHeaders, now, reqStart, signReqs, handshakeReqs, events,
                   firstDown, fwd, checks, others>>

----------------------------------------------------------------------------
(* Time *)

Tick ==
    /\ now < MaxTime * TimeUnit
    /\ pc \in {"signing", "handshake"} \/ pingInterval.armed \/ healthCheckInterval.armed
    /\ pc = "signing" => now - reqStart < SignTimeout
    /\ pc = "handshake" => now - reqStart < MaxWait * TimeUnit
    /\ pingInterval.armed => now < pingInterval.due
    /\ healthCheckInterval.armed => now < healthCheckInterval.due
    /\ now' = now + TimeUnit
    /\ last' = Step("Tick", "none", NoFrames, NoFrames)
    /\ UNCHANGED <<pc, httpStatus, server, upstream, pingInterval, healthCheckInterval,
                   lastActivity, connectionStartTime, isConnected, signedUrl, wsHeaders,
                   listeners, reqStart, signReqs, handshakeReqs, everOpen,
                   lastMsg, events, clientSent, firstDown, fwd, checks, others>>

----------------------------------------------------------------------------
(* The keepalive timers *)

\* the 25 s interval callback
PingTick ==
    /\ pingInterval.armed
    /\ now >= pingInterval.due
    /\ IF readyState(upstream) = 1
       THEN /\ lastActivity' = now
            /\ pingInterval' = [pingInterval EXCEPT !.due = @ + PingPeriod]
            /\ last' = Step("PingTick", "none", NoFrames, <<Frame("ping", "", "none")>>)
            /\ UNCHANGED healthCheckInterval
       ELSE /\ pingInterval' = cleanup.ping
            /\ healthCheckInterval' = cleanup.health
            /\ last' = Step("PingTick", "none", NoFrames, NoFrames)
            /\ UNCHANGED lastActivity
    /\ UNCHANGED <<pc, httpStatus, server, upstream, connectionStartTime, isConnected,
                   signedUrl, wsHeaders, listeners, now, reqStart, signReqs,
                   handshakeReqs, everOpen, lastMsg, events, clientSent, firstDown, fwd, checks, others>>

StatsText == "Connection active for <n> minutes"

IsIdle(timeSinceLastActivity) == timeSinceLastActivity > IdleThreshold

statsDue_Inclusive(connectionDuration) ==
    connectionDuration > 0 /\ connectionDuration % StatsWindow <= HealthPeriod

\* connectionDuration > 0 && connectionDuration % 120000 < 45000
statsDue(connectionDuration) ==
    connectionDuration > 0 /\ connectionDuration % StatsWindow < HealthPeriod

\* the 45 s interval callback
HealthTick ==
    LET timeSinceLastActivity == now - lastActivity
        connectionDuration == now - connectionStartTime
    IN
    /\ healthCheckInterval.armed
    /\ now >= healthCheckInterval.due
    /\ IF IsIdle(timeSinceLastActivity)
       THEN /\ pingInterval' = cleanup.ping
            /\ healthCheckInterval' = cleanup.health
            /\ IF sendThrows(server)
               THEN /\ last' = Step("HealthTick", "idle", NoFrames, NoFrames)
                    /\ UNCHANGED server
               ELSE /\ last' = Step("HealthTick", "idle",
                                    IF sendDelivers(server)
                                    THEN <<Frame("error", IdleText, "none")>>
                                    ELSE NoFrames, NoFrames)
                    /\ server' = close(server, 1000)
       ELSE /\ healthCheckInterval' = [healthCheckInterval EXCEPT !.due = @ + HealthPeriod]
            /\ last' = Step("HealthTick", "alive",
                            IF statsDue(connectionDuration) /\ sendDelivers(server)
                            THEN <<Frame("info", StatsText, "none")>>
                            ELSE NoFrames, NoFrames)
            /\ UNCHANGED <<pingInterval, server>>
    /\ clientSent' = clientSent + Len(last'.toClient)
    /\ UNCHANGED <<pc, httpStatus, upstream, lastActivity, connectionStartTime,
                   isConnected, signedUrl, wsHeaders, listeners, now, reqStart,
                   signReqs, handshakeReqs, everOpen, lastMsg, events, firstDown, fwd, others>>

----------------------------------------------------------------------------
(* The message listeners *)

\* A frame as the listeners read it. form: "text" or "binary". json: what
\* JSON.parse makes of a text frame: "object", "null" (reading .type of it
\* throws), "scalar" (a number, string, boolean or array: every field read
\* is undefined) or "invalid" (JSON.parse throws); "none" for a binary frame.

\* a frame from the client: type, user_audio_chunk ("absent", "" empty, "S" a
\* string, "O+" an object with audio_base_64 "B", "O-" an object without),
\* text ("" absent or empty, "T" a string, "N" a truthy value that is not a
\* string) and whether the object has further fields
ClientData(form, json, type, chunk, text, extra) ==
    [form |-> form, json |-> json, type |-> type, chunk |-> chunk, text |-> text,
     extra |-> extra]

ClientObjects ==
    [form : {"text"}, json : {"object"}, type : {"ping", "user_message", "other", "none"},
     chunk : {"absent", "", "S", "O+", "O-"}, text : {"", "T", "N"}, extra : BOOLEAN]

ClientOpaque ==
    {ClientData("text", j, "none", "absent", "", FALSE) : j \in {"null", "scalar", "invalid"}}
        \cup {ClientData("binary", "none", "none", "absent", "", FALSE)}

ClientMsgs == ClientObjects \cup ClientOpaque

\* a frame from upstream: type, the three audio_base_64 fields and the three
\* mime fields ("" absent or empty)
UpstreamData(form, json, type, top, ae, data, mTop, mAe, mData) ==
    [form |-> form, json |-> json, type |-> type, top |-> top, ae |-> ae, data |-> data,
     mTop |-> mTop, mAe |-> mAe, mData |-> mData]

UpstreamObjects ==
    [form : {"text"}, json : {"object"}, type : {"pong", "agent_response", "none"},
     top : {"", "A1"}, ae : {"", "A2"}, data : {"", "A3"},
     mTop : {"", "M1"}, mAe : {"", "M2"}, mData : {"", "M3"}]

UpstreamOpaque ==
    {UpstreamData("text", j, "none", "", "", "", "", "", "") : j \in {"null", "scalar", "invalid"}}
        \cup {UpstreamData("binary", "none", "none", "", "", "", "", "", "")}

UpstreamMsgs == UpstreamObjects \cup UpstreamOpaque

\* the frames of the session specification: one of each kind the listeners
\* distinguish
SessionClientMsgs ==
    {ClientData("text", "object", "ping", "absent", "", FALSE),
     ClientData("text", "object", "none", "S", "", FALSE),
     ClientData("text", "object", "user_message", "absent", "T", FALSE),
     ClientData("text", "object", "other", "absent", "", TRUE),
     ClientData("text", "invalid", "none", "absent", "", FALSE)}

SessionUpstreamMsgs ==
    {UpstreamData("text", "object", "pong", "", "", "", "", "", ""),
     UpstreamData("text", "object", "none", "A1", "", "", "", "", ""),
     UpstreamData("text", "object", "agent_response", "", "", "", "", "", ""),
     UpstreamData("text", "invalid", "none", "", "", "", "", "", "")}

\* x || y || z
Or3(x, y, z) == IF x # "" THEN x ELSE IF y # "" THEN y ELSE z

\* send(data): the frame as it was received
Verbatim(m) == [verbatim |-> m]

DefaultMime == "audio/mpeg"

\* what the server 'message' listener sends while upstream.readyState is 1
clientFrame_ChunkObject(m) ==
    IF m.form = "text" /\ m.json = "object"
    THEN IF m.type = "ping"
         THEN [toClient |-> <<Frame("pong", "", "none")>>, toUpstream |-> NoFrames]
         ELSE IF m.chunk \notin {"absent", ""}
         THEN [toClient |-> NoFrames, toUpstream |-> <<[user_audio_chunk |-> m.chunk]>>]
         ELSE [toClient |-> NoFrames, toUpstream |-> <<Verbatim(m)>>]
    ELSE [toClient |-> NoFrames, toUpstream |-> <<Verbatim(m)>>]

clientFrame(m) ==
    IF m.form = "text" /\ m.json = "object"
    THEN IF m.type = "ping"
         THEN [toClient |-> <<Frame("pong", "", "none")>>, toUpstream |-> NoFrames]
         ELSE IF m.chunk \notin {"absent", ""}
         THEN [toClient |-> NoFrames,
               toUpstream |-> <<[user_audio_chunk |->
                                    IF m.chunk = "O+" THEN "B" ELSE m.chunk]>>]
         \* text.substring of a value that is not a string throws: the inner
         \* catch sends the frame as it came
         ELSE IF m.type = "user_message" /\ m.text = "T"
         THEN [toClient |-> NoFrames,
               toUpstream |-> <<[type |-> "user_message", text |-> m.text]>>]
         ELSE [toClient |-> NoFrames, toUpstream |-> <<Verbatim(m)>>]
    ELSE [toClient |-> NoFrames, toUpstream |-> <<Verbatim(m)>>]

upstreamFrame_DropsOpaque(m) ==
    IF m.form = "text" /\ m.json = "object"
    THEN IF m.type = "pong" THEN NoFrames
         ELSE IF Or3(m.top, m.ae, m.data) # ""
         THEN <<[type |-> "audio", audio_base_64 |-> Or3(m.top, m.ae, m.data),
                 mime |-> Or3(m.mTop, m.mAe, Or3(m.mData, DefaultMime, DefaultMime))]>>
         ELSE <<Verbatim(m)>>
    ELSE NoFrames

upstreamFrame_TopMimeOnly(m) ==
    IF m.form = "text" /\ m.json = "object"
    THEN IF m.type = "pong" THEN NoFrames
         ELSE IF Or3(m.top, m.ae, m.data) # ""
         THEN <<[type |-> "audio", audio_base_64 |-> Or3(m.top, m.ae, m.data),
                 mime |-> Or3(m.mTop, DefaultMime, DefaultMime)]>>
         ELSE <<Verbatim(m)>>
    ELSE <<Verbatim(m)>>

\* what the upstream 'message' listener sends to the client
upstreamFrame(m) ==
    IF m.form = "text" /\ m.json = "object"
    THEN IF m.type = "pong" THEN NoFrames
         ELSE IF Or3(m.top, m.ae, m.data) # ""
         THEN <<[type |-> "audio", audio_base_64 |-> Or3(m.top, m.ae, m.data),
                 mime |-> Or3(m.mTop, m.mAe, Or3(m.mData, DefaultMime, DefaultMime))]>>
         ELSE <<Verbatim(m)>>
    ELSE <<Verbatim(m)>>

\* server.send inside a listener's try/catch: the frames that reach the wire
serverSends(frames) == IF sendDelivers(server) THEN frames ELSE NoFrames

\* a frame from the client arrives on the server socket
ClientMessage(m) ==
    /\ listeners
    /\ ~server.closedIn /\ ~server.aborted
    /\ events < MaxEvents
    /\ events' = events + 1
    /\ lastActivity' = now
    /\ lastMsg' = now
    /\ IF readyState(upstream) = 1
       THEN IF clientFrame(m).toClient # NoFrames /\ sendThrows(server)
            THEN \* the inner catch takes the throw of server.send for a parse error
                 last' = Step("ClientMessage", m, NoFrames, <<Verbatim(m)>>)
            ELSE last' = Step("ClientMessage", m, serverSends(clientFrame(m).toClient),
                              clientFrame(m).toUpstream)
       ELSE last' = Step("ClientMessage", m,
                         serverSends(<<Frame("error", LostText, "none")>>), NoFrames)
    /\ clientSent' = clientSent + Len(last'.toClient)
    /\ UNCHANGED <<pc, httpStatus, server, upstream, pingInterval, healthCheckInterval,
                   connectionStartTime, isConnected, signedUrl, wsHeaders, listeners,
                   now, reqStart, signReqs, handshakeReqs, everOpen, firstDown, checks, others>>

\* a frame from the provider arrives on the upstream socket
UpstreamMessage(m) ==
    /\ listeners
    /\ ~upstream.closedIn /\ ~upstream.aborted
    /\ events < MaxEvents
    /\ events' = events + 1
    /\ lastActivity' = now
    /\ lastMsg' = now
    /\ last' = Step("UpstreamMessage", m, serverSends(upstreamFrame(m)), NoFrames)
    /\ clientSent' = clientSent + Len(last'.toClient)
    /\ UNCHANGED <<pc, httpStatus, server, upstream, pingInterval, healthCheckInterval,
                   connectionStartTime, isConnected, signedUrl, wsHeaders, listeners,
                   now, reqStart, signReqs, handshakeReqs, everOpen, firstDown, checks, others>>

----------------------------------------------------------------------------
(* The close and error listeners *)

\* the socket as its 'close' event finds it
closed(ws) == [ws EXCEPT !.closedIn = TRUE, !.closeFired = TRUE]

\* the socket as its 'error' event finds it
errored(ws) == [ws EXCEPT !.aborted = TRUE, !.errorFired = TRUE]

Teardown(name, side) ==
    /\ firstDown' = IF firstDown = "none" THEN side ELSE firstDown
    /\ pingInterval' = cleanup.ping
    /\ healthCheckInterval' = cleanup.health
    /\ isConnected' = FALSE
    /\ last' = Step(name, "none", NoFrames, NoFrames)
    /\ UNCHANGED <<pc, httpStatus, lastActivity, connectionStartTime, signedUrl,
                   wsHeaders, listeners, now, reqStart, signReqs, handshakeReqs,
                   everOpen, lastMsg, events, clientSent, fwd, checks, others>>

ServerClose ==
    /\ listeners
    /\ ~server.closeFired
    /\ server' = closed(server)
    /\ upstream' = safeClose(upstream)
    /\ Teardown("ServerClose", "server")

ServerError ==
    /\ listeners
    /\ ~server.errorFired
    /\ server' = errored(server)
    /\ upstream' = safeClose(upstream)
    /\ Teardown("ServerError", "server")

UpstreamClose ==
    /\ listeners
    /\ ~upstream.closeFired
    /\ upstream' = closed(upstream)
    /\ server' = safeClose(server)
    /\ Teardown("UpstreamClose", "upstream")

UpstreamError ==
    /\ listeners
    /\ ~upstream.errorFired
    /\ upstream' = errored(upstream)
    /\ server' = safeClose(server)
    /\ Teardown("UpstreamError", "upstream")

----------------------------------------------------------------------------
(* The session *)

Next ==
    \/ \E upgrade, apiKey, agentId \in BOOLEAN : Request(upgrade, apiKey, agentId)
    \/ \E o \in SignOutcomes : SignRespond(o)
    \/ SignTimedOut
    \/ \E o \in HandshakeOutcomes : HandshakeRespond(o)
    \/ Tick
    \/ PingTick
    \/ HealthTick /\ UNCHANGED checks
    \/ \E m \in SessionClientMsgs : ClientMessage(m) /\ UNCHANGED fwd
    \/ \E m \in SessionUpstreamMsgs : UpstreamMessage(m) /\ UNCHANGED fwd
    \/ ServerClose
    \/ ServerError
    \/ UpstreamClose
    \/ UpstreamError

Spec == Init /\ [][Next]_vars

----------------------------------------------------------------------------
(* The relay: an open session and every shape of frame *)

\* the frames of one arrival, appended to the log of a direction
emit_Prepend(log, n, frames) == [i \in 1..Len(frames) |-> n] \o log

emit(log, n, frames) == log \o [i \in 1..Len(frames) |-> n]

\* the session as HandshakeOpened leaves it, with the signed URL
MsgInit ==
    /\ pc = "returned"
    /\ httpStatus = "101"
    /\ server = accept(NewSocket)
    /\ upstream = accept(NewSocket)
    /\ pingInterval = [armed |-> TRUE, due |-> PingPeriod]
    /\ healthCheckInterval = [armed |-> TRUE, due |-> HealthPeriod]
    /\ lastActivity = 0
    /\ connectionStartTime = 0
    /\ isConnected = TRUE
    /\ signedUrl = Url("signed", TRUE, FALSE, TRUE)
    /\ wsHeaders = HandshakeHeaders(Url("signed", TRUE, FALSE, TRUE))
    /\ listeners = TRUE
    /\ now = 0
    /\ reqStart = 0
    /\ signReqs = 1
    /\ handshakeReqs = 1
    /\ last = Step("HandshakeRespond", "101", welcome, NoFrames)
    /\ everOpen = TRUE
    /\ lastMsg = 0
    /\ events = 0
    /\ clientSent = 1
    /\ firstDown = "none"
    /\ fwd = [up |-> << >>, client |-> << >>]
    /\ checks = << >>
    /\ peer = Idle /\ hook = Idle /\ app = Idle /\ node = Idle

MsgNext ==
    \/ \E m \in ClientMsgs :
          /\ ClientMessage(m)
          /\ fwd' = [fwd EXCEPT !.up = emit(@, events', last'.toUpstream)]
    \/ \E m \in UpstreamMsgs :
          /\ UpstreamMessage(m)
          /\ fwd' = [fwd EXCEPT !.client = emit(@, events', last'.toClient)]
    \/ ServerClose
    \/ ServerError
    \/ UpstreamClose
    \/ UpstreamError

MsgSpec == MsgInit /\ [][MsgNext]_vars

----------------------------------------------------------------------------
(* Two invocations of fetch interleaved on the event loop *)

Scoped_ModuleLevel(mine, assigned) == assigned

\* pingInterval, healthCheckInterval, lastActivity and isConnected are let
\* declarations inside fetch: each invocation has its own, and what the
\* callbacks of another invocation assign to theirs does not reach mine
Scoped(mine, assigned) == mine

\* the second invocation waits for its upstream handshake
PeerPending ==
    [on |-> TRUE, step |-> "Connect", pc |-> "handshake",
     server |-> accept(NewSocket), upstream |-> NoSocket,
     pingInterval |-> NoTimer, healthCheckInterval |-> NoTimer,
     lastActivity |-> 8 * TimeUnit, isConnected |-> FALSE]

\* the second invocation has been open since 20 s
PeerOpen ==
    [on |-> TRUE, step |-> "HandshakeOpened", pc |-> "returned",
     server |-> accept(NewSocket), upstream |-> accept(NewSocket),
     pingInterval |-> [armed |-> TRUE, due |-> 4 * TimeUnit + PingPeriod],
     healthCheckInterval |-> [armed |-> TRUE, due |-> 4 * TimeUnit + HealthPeriod],
     lastActivity |-> 4 * TimeUnit, isConnected |-> TRUE]

\* the first invocation has been open since 0 s and has pinged once; the
\* clock shows 40 s
PairInit ==
    /\ pc = "returned"
    /\ httpStatus = "101"
    /\ server = accept(NewSocket)
    /\ upstream = accept(NewSocket)
    /\ pingInterval = [armed |-> TRUE, due |-> 2 * PingPeriod]
    /\ healthCheckInterval = [armed |-> TRUE, due |-> HealthPeriod]
    /\ lastActivity = PingPeriod
    /\ connectionStartTime = 0
    /\ isConnected = TRUE
    /\ signedUrl = Url("signed", TRUE, FALSE, TRUE)
    /\ wsHeaders = HandshakeHeaders(Url("signed", TRUE, FALSE, TRUE))
    /\ listeners = TRUE
    /\ now = 8 * TimeUnit
    /\ reqStart = 0
    /\ signReqs = 1
    /\ handshakeReqs = 1
    /\ last = Step("Tick", "none", NoFrames, NoFrames)
    /\ everOpen = TRUE
    /\ lastMsg = 0
    /\ events = 0
    /\ clientSent = 1
    /\ firstDown = "none"
    /\ fwd = [up |-> << >>, client |-> << >>]
    /\ checks = << >>
    /\ peer \in {PeerPending, PeerOpen}
    /\ hook = Idle /\ app = Idle /\ node = Idle

\* a callback of the second invocation ran: its assignments, seen from the
\* first invocation
PeerStep(p) ==
    /\ peer' = p
    /\ server' = Scoped(server, p.server)
    /\ upstream' = Scoped(upstream, p.upstream)
    /\ pingInterval' = Scoped(pingInterval, p.pingInterval)
    /\ healthCheckInterval' = Scoped(healthCheckInterval, p.healthCheckInterval)
    /\ lastActivity' = Scoped(lastActivity, p.lastActivity)
    /\ isConnected' = Scoped(isConnected, p.isConnected)
    /\ UNCHANGED <<pc, httpStatus, connectionStartTime, signedUrl, wsHeaders, listeners,
                   now, reqStart, signReqs, handshakeReqs, last, everOpen, lastMsg,
                   events, clientSent, firstDown, fwd, checks,
                   hook, app, node>>

\* the second invocation's handshake request settles
PeerHandshakeRespond(o) ==
    /\ peer.on /\ peer.pc = "handshake"
    /\ IF o.kind = "response" /\ o.status = "101" /\ o.socket
       THEN PeerStep([peer EXCEPT !.step = "HandshakeOpened", !.pc = "returned",
                                  !.upstream = accept(NewSocket), !.isConnected = TRUE,
                                  !.lastActivity = now,
                                  !.pingInterval = setInterval(PingPeriod),
                                  !.healthCheckInterval = setInterval(HealthPeriod)])
       ELSE LET r == IF o.kind = "throws"
                     THEN CatchConnectionError(peer.server, NoFrames)
                     ELSE IF o.status # "101" THEN Refused(peer.server, o.status)
                     ELSE NoWebSocket(peer.server)
            IN  PeerStep([peer EXCEPT !.step = "HandshakeFailed",
                                      !.pc = IF r.threw THEN "threw" ELSE "returned",
                                      !.server = r.server,
                                      !.pingInterval = cleanup.ping,
                                      !.healthCheckInterval = cleanup.health])

\* a frame arrives on one of the second invocation's sockets
PeerMessage ==
    /\ peer.on /\ peer.isConnected
    /\ peer.lastActivity < now
    /\ PeerStep([peer EXCEPT !.step = "Message", !.lastActivity = now])

\* the second invocation's 25 s interval callback
PeerPingTick ==
    /\ peer.on /\ peer.pingInterval.armed
    /\ now >= peer.pingInterval.due
    /\ IF readyState(peer.upstream) = 1
       THEN PeerStep([peer EXCEPT !.step = "PingTick", !.lastActivity = now,
                                  !.pingInterval.due = @ + PingPeriod])
       ELSE PeerStep([peer EXCEPT !.step = "PingTick",
                                  !.pingInterval = cleanup.ping,
                                  !.healthCheckInterval = cleanup.health])

\* a close or error event on one of the second invocation's sockets
PeerDown(side, event) ==
    LET hit == IF side = "server" THEN peer.server ELSE peer.upstream
        other == IF side = "server" THEN peer.upstream ELSE peer.server
        hit2 == IF event = "close" THEN closed(hit) ELSE errored(hit)
    IN  /\ peer.on /\ peer.pc = "returned" /\ peer.upstream.exists
        /\ IF event = "close" THEN ~hit.closeFired ELSE ~hit.errorFired
        /\ PeerStep([peer EXCEPT !.step = "Down",
                                  !.server = IF side = "server" THEN hit2 ELSE safeClose(other),
                                  !.upstream = IF side = "server" THEN safeClose(other) ELSE hit2,
                                  !.pingInterval = cleanup.ping,
                                  !.healthCheckInterval = cleanup.health,
                                  !.isConnected = FALSE])

\* the clock advances while no interval of either invocation is due
PairTick ==
    /\ now < MaxPairTime * TimeUnit
    /\ (peer.on /\ peer.pingInterval.armed) => now < peer.pingInterval.due
    /\ Tick

PairNext ==
    \/ PairTick
    \/ PingTick
    \/ HealthTick /\ UNCHANGED checks
    \/ \E m \in SessionClientMsgs : ClientMessage(m) /\ UNCHANGED fwd
    \/ \E m \in SessionUpstreamMsgs : UpstreamMessage(m) /\ UNCHANGED fwd
    \/ ServerClose
    \/ ServerError
    \/ UpstreamClose
    \/ UpstreamError
    \/ \E o \in HandshakeOutcomes : PeerHandshakeRespond(o)
    \/ PeerMessage
    \/ PeerPingTick
    \/ \E side \in {"server", "upstream"}, event \in {"close", "error"} : PeerDown(side, event)

PairSpec == PairInit /\ [][PairNext]_vars

----------------------------------------------------------------------------
(* A session that stays open: the timers alone *)

\* the session as HandshakeOpened leaves it
StatsInit ==
    /\ pc = "returned"
    /\ httpStatus = "101"
    /\ server = accept(NewSocket)
    /\ upstream = accept(NewSocket)
    /\ now \in {0, TimeUnit}
    /\ pingInterval = setInterval(PingPeriod)
    /\ healthCheckInterval = setInterval(HealthPeriod)
    /\ lastActivity = now
    /\ connectionStartTime = now
    /\ isConnected = TRUE
    /\ signedUrl = Url("signed", TRUE, FALSE, TRUE)
    /\ wsHeaders = HandshakeHeaders(Url("signed", TRUE, FALSE, TRUE))
    /\ listeners = TRUE
    /\ reqStart = 0
    /\ signReqs = 1
    /\ handshakeReqs = 1
    /\ last = Step("HandshakeRespond", "101", welcome, NoFrames)
    /\ everOpen = TRUE
    /\ lastMsg = now
    /\ events = 0
    /\ clientSent = 1
    /\ firstDown = "none"
    /\ fwd = [up |-> << >>, client |-> << >>]
    /\ checks = << >>
    /\ peer = Idle /\ hook = Idle /\ app = Idle /\ node = Idle

\* time passes up to the next timer
StatsTick ==
    /\ now < MaxStatsTime * TimeUnit
    /\ pingInterval.armed => now < pingInterval.due
    /\ healthCheckInterval.armed => now < healthCheckInterval.due
    /\ now' = now + TimeUnit
    /\ last' = Step("Tick", "none", NoFrames, NoFrames)
    /\ UNCHANGED <<pc, httpStatus, server, upstream, pingInterval, healthCheckInterval,
                   lastActivity, connectionStartTime, isConnected, signedUrl, wsHeaders,
                   listeners, reqStart, signReqs, handshakeReqs, everOpen,
                   lastMsg, events, clientSent, firstDown, fwd, checks, others>>

\* the health check, with a note of whether it sent the stats
StatsHealthTick ==
    /\ HealthTick
    /\ checks' = Append(checks, last'.toClient = <<Frame("info", StatsText, "none")>>)

StatsNext ==
    \/ StatsTick
    \/ PingTick
    \/ StatsHealthTick

StatsSpec == StatsInit /\ [][StatsNext]_vars

----------------------------------------------------------------------------
(* POST /convai-hook and the provider's knowledge-base store *)

Requests == {1, 2}

Titles == {"A", "B"}

\* a knowledge-base document of the provider, and the agent's entry for it
Doc(id, name) == [id |-> id, name |-> name]

NoDoc == Doc(0, "")

\* what the provider holds before the first request
InitialStores ==
    {[docs |-> ds, agent |-> [kb |-> kb, other |-> o]] :
        ds \in SUBSET {Doc(1, "A"), Doc(2, "B")},
        kb \in {<< >>, <<Doc(1, "A")>>, <<Doc(2, "B"), Doc(1, "A")>>},
        o \in {"voice-1", "voice-2"}}

\* the closure of one invocation of the handler
NoRequest ==
    [pc |-> "idle", title |-> "", found |-> NoDoc, created |-> NoDoc,
     payload |-> [kb |-> << >>, other |-> ""], status |-> "none",
     overlapped |-> FALSE, faults |-> FALSE]

InFlight(q) == q.pc \notin {"idle", "done"}

existingDoc_None(docs, title) == NoDoc

\* existingDocuments.find(doc => doc.name === title), the listing in id order
existingDoc(docs, title) ==
    LET same == {d \in docs : d.name = title}
    IN  IF same = {} THEN NoDoc
        ELSE CHOOSE d \in same : \A e \in same : d.id <= e.id

updatePayload_Appends(agentData, entry) ==
    [kb |-> Append(agentData.kb, entry), other |-> agentData.other]

\* conversation_config of the PATCH: the one read, with prompt.knowledge_base
\* replaced by the single new entry
updatePayload(agentData, entry) == [kb |-> <<entry>>, other |-> agentData.other]

HookInit ==
    /\ SessionInit
    /\ peer = Idle /\ app = Idle /\ node = Idle
    /\ hook \in {[on |-> TRUE, docs |-> st.docs, agent |-> st.agent, nextId |-> 3,
                   req |-> [r \in Requests |-> NoRequest], deleted |-> {},
                   last |-> [name |-> "none", r |-> 0]] : st \in InitialStores}

HookStep(h) == hook' = h /\ UNCHANGED <<session, peer, app, node>>

\* the value of the signature header of a request: none, one made with the
\* secret, one that was not
Sigs == {"", "t=1,v0=signed", "t=1,v0=forged"}

signatureCheck_Verifies(sigHeader) ==
    IF sigHeader \in {"", "t=1,v0=signed"} THEN "proceed" ELSE "reject"

\* if (!sigHeader) ... else ...: both branches log and go on
signatureCheck(sigHeader) == "proceed"

\* the 'end' listener of the request up to its first await: parse, look at
\* the signature header, check the fields, send the list request
handle(r, body, title, sigHeader) ==
    LET busy == \E q \in Requests \ {r} : InFlight(hook.req[q])
        answered(status) ==
            [hook EXCEPT
                !.req[r] = [NoRequest EXCEPT !.pc = "done", !.status = status],
                !.last = [name |-> "Post", r |-> r, sig |-> sigHeader]]
    IN  IF body = "invalid" THEN answered("400")
        ELSE IF signatureCheck(sigHeader) = "reject" THEN answered("401")
        ELSE IF body = "ok"
        THEN [hook EXCEPT
                !.req = [q \in Requests |->
                            IF q = r
                            THEN [NoRequest EXCEPT !.pc = "list", !.title = title,
                                                   !.overlapped = busy]
                            ELSE IF InFlight(hook.req[q])
                            THEN [hook.req[q] EXCEPT !.overlapped = TRUE]
                            ELSE hook.req[q]],
                !.last = [name |-> "Post", r |-> r, sig |-> sigHeader]]
        ELSE answered("400")

\* the request body has arrived
Post(r, body, title, sigHeader) ==
    /\ hook.on /\ hook.req[r].pc = "idle"
    /\ HookStep(handle(r, body, title, sigHeader))

\* step 1 answered; step 2 sends the DELETE when a document has the title,
\* otherwise step 3 sends the create request
ListRespond(r, ok) ==
    /\ hook.on /\ hook.req[r].pc = "list"
    /\ LET found == IF ok THEN existingDoc(hook.docs, hook.req[r].title) ELSE NoDoc
       IN  HookStep([hook EXCEPT
                !.req[r].found = found,
                !.req[r].pc = IF found # NoDoc THEN "delete" ELSE "create",
                !.req[r].faults = @ \/ ~ok,
                !.last = [name |-> "ListRespond", r |-> r]])

\* the DELETE answered or failed; either way step 3 sends the create request
DeleteRespond(r, ok) ==
    /\ hook.on /\ hook.req[r].pc = "delete"
    /\ ok => hook.req[r].found \in hook.docs
    /\ HookStep([hook EXCEPT
            !.docs = IF ok THEN @ \ {hook.req[r].found} ELSE @,
            !.deleted = IF ok THEN @ \cup {[doc |-> hook.req[r].found, by |-> r]} ELSE @,
            !.req[r].pc = "create",
            !.req[r].faults = @ \/ ~ok,
            !.last = [name |-> "DeleteRespond", r |-> r]])

\* step 3 answered; step 4 reads the agent
CreateRespond(r, ok) ==
    /\ hook.on /\ hook.req[r].pc = "create"
    /\ IF ok
       THEN HookStep([hook EXCEPT
                !.docs = @ \cup {Doc(hook.nextId, hook.req[r].title)},
                !.nextId = @ + 1,
                !.req[r].created = Doc(hook.nextId, hook.req[r].title),
                !.req[r].pc = "get",
                !.last = [name |-> "CreateRespond", r |-> r]])
       ELSE HookStep([hook EXCEPT
                !.req[r].pc = "done", !.req[r].status = "500", !.req[r].faults = TRUE,
                !.last = [name |-> "CreateRespond", r |-> r]])

\* step 4 answered; step 5 sends the PATCH
GetAgentRespond(r, ok) ==
    /\ hook.on /\ hook.req[r].pc = "get"
    /\ IF ok
       THEN HookStep([hook EXCEPT
                !.req[r].payload = updatePayload(hook.agent, hook.req[r].created),
                !.req[r].pc = "patch",
                !.last = [name |-> "GetAgentRespond", r |-> r]])
       ELSE HookStep([hook EXCEPT
                !.req[r].pc = "done", !.req[r].status = "500", !.req[r].faults = TRUE,
                !.last = [name |-> "GetAgentRespond", r |-> r]])

\* the PATCH answered: the provider holds what was sent, the handler answers
PatchRespond(r, ok) ==
    /\ hook.on /\ hook.req[r].pc = "patch"
    /\ IF ok
       THEN HookStep([hook EXCEPT
                !.agent = hook.req[r].payload,
                !.req[r].pc = "done", !.req[r].status = "200",
                !.last = [name |-> "PatchRespond", r |-> r]])
       ELSE HookStep([hook EXCEPT
                !.req[r].pc = "done", !.req[r].status = "500", !.req[r].faults = TRUE,
                !.last = [name |-> "PatchRespond", r |-> r]])

HookNext ==
    \/ \E r \in Requests, body \in {"ok", "invalid", "noTitle", "noKnowledgeBase"},
          title \in Titles, sigHeader \in Sigs : Post(r, body, title, sigHeader)
    \/ \E r \in Requests, ok \in BOOLEAN : ListRespond(r, ok)
    \/ \E r \in Requests, ok \in BOOLEAN : DeleteRespond(r, ok)
    \/ \E r \in Requests, ok \in BOOLEAN : CreateRespond(r, ok)
    \/ \E r \in Requests, ok \in BOOLEAN : GetAgentRespond(r, ok)
    \/ \E r \in Requests, ok \in BOOLEAN : PatchRespond(r, ok)

HookSpec == HookInit /\ [][HookNext]_vars

----------------------------------------------------------------------------
(* src/projects.js: the project store *)

\* strings the code slices or joins are sequences of characters
Separator == <<"\n", "\n">>

\* a file of a project directory; for a .url file, content is what the URL
\* returns and ok whether the fetch answers 2xx
File(name, ext, content, ok) == [name |-> name, ext |-> ext, content |-> content, ok |-> ok]

\* an entry of src/projects
Entry(name, isDirectory, files) == [name |-> name, isDirectory |-> isDirectory, files |-> files]

\* src/projects is missing
NoStore == [exists |-> FALSE, entries |-> << >>]

Stores ==
    {NoStore,
     [exists |-> TRUE, entries |-> << >>],
     [exists |-> TRUE,
      entries |-> <<Entry("alpha", TRUE, <<File("a", ".txt", <<"a">>, TRUE),
                                           File("logo", ".png", <<"x">>, TRUE),
                                           File("c", ".MD", <<"c", "c">>, TRUE)>>),
                    Entry("beta", FALSE, << >>),
                    Entry("empty", TRUE, << >>)>>],
     [exists |-> TRUE,
      entries |-> <<Entry("alpha", TRUE, <<File("a", ".txt", << >>, TRUE),
                                           File("u", ".url", <<"u">>, FALSE)>>),
                    Entry("__proto__", TRUE, <<File("p", ".md", <<"p">>, TRUE)>>)>>],
     [exists |-> TRUE,
      entries |-> <<Entry("alpha", TRUE, <<File("u", ".url", <<"u">>, TRUE),
                                           File("d", ".docx", <<"d">>, TRUE)>>),
                    Entry("constructor", TRUE, <<File("k", ".txt", <<"k">>, TRUE)>>)>>]}

\* the keys asked for
Keys == {"alpha", "beta", "empty", "ghost", "constructor", "__proto__"}

\* path.extname(f).toLowerCase()
extname(f) ==
    CASE f.ext = ".MD" -> ".md"
      [] f.ext = ".TXT" -> ".txt"
      [] OTHER -> f.ext

DocExts == {".txt", ".md", ".docx", ".url"}

\* properties every object literal inherits
ObjectPrototype == [kind |-> "Object.prototype"]

InheritedKeys == {"constructor", "toString", "hasOwnProperty", "valueOf"}

Missing == [kind |-> "undefined"]

\* projects[d.name] = { title: d.name, docs }
Project(d) ==
    [kind |-> "project", title |-> d.name,
     docs |-> SelectSeq(d.files, LAMBDA f : extname(f) \in DocExts)]

\* scanProjects(): the object literal after the loop. An assignment to
\* __proto__ sets the prototype and makes no own property
scanProjects(fs) ==
    LET dirs == IF fs.exists
                THEN SelectSeq(fs.entries, LAMBDA d : d.isDirectory)
                ELSE << >>
        named == SelectSeq(dirs, LAMBDA d : d.name # "__proto__")
        proto == SelectSeq(dirs, LAMBDA d : d.name = "__proto__")
    IN  [keys |-> [i \in 1..Len(named) |-> named[i].name],
         own |-> [i \in 1..Len(named) |-> Project(named[i])],
         proto |-> IF proto = << >> THEN ObjectPrototype ELSE Project(proto[1])]

\* p[key]
get(p, key) ==
    IF \E i \in 1..Len(p.keys) : p.keys[i] = key
    THEN p.own[CHOOSE i \in 1..Len(p.keys) : p.keys[i] = key]
    ELSE IF key = "__proto__" THEN p.proto
    ELSE IF key \in InheritedKeys THEN [kind |-> "inherited"]
    ELSE Missing

\* Object.entries(p).map(([key, v]) => ({ key, title: v.title }))
listProjects(fs) ==
    LET p == scanProjects(fs)
    IN  [i \in 1..Len(p.keys) |-> [key |-> p.keys[i], title |-> p.own[i].title]]

loadDoc_EmptyOnFailure(f) ==
    IF extname(f) = ".url" /\ ~f.ok
    THEN [threw |-> FALSE, text |-> << >>]
    ELSE [threw |-> FALSE, text |-> f.content]

\* loadDoc(filePath): the text, or the throw of a .url whose fetch is not ok
loadDoc(f) ==
    IF extname(f) = ".url" /\ ~f.ok
    THEN [threw |-> TRUE, text |-> << >>]
    ELSE [threw |-> FALSE, text |-> f.content]

RECURSIVE join(_)
\* chunks.join('\n\n')
join(chunks) ==
    IF chunks = << >> THEN << >>
    ELSE IF Len(chunks) = 1 THEN chunks[1]
    ELSE chunks[1] \o Separator \o join(Tail(chunks))

\* assembleKB(key)
assembleKB(fs, key) ==
    LET proj == get(scanProjects(fs), key)
    IN  IF proj.kind = "undefined"
        THEN [kind |-> "notFound", title |-> "", text |-> << >>]
        ELSE IF proj.kind # "project"
        THEN \* proj.docs is undefined: for...of throws a TypeError
             [kind |-> "typeError", title |-> "", text |-> << >>]
        ELSE IF \E i \in 1..Len(proj.docs) : loadDoc(proj.docs[i]).threw
        THEN [kind |-> "docError", title |-> "", text |-> << >>]
        ELSE [kind |-> "ok", title |-> proj.title,
              text |-> join([i \in 1..Len(proj.docs) |-> loadDoc(proj.docs[i]).text])]

----------------------------------------------------------------------------
(* src/elevenlabs.js and the routes of server.js *)

\* an API key of n characters
Key(n) == [i \in 1..n |-> i]

ApiKeys == {Key(n) : n \in 0..MaxKeyLen}

\* process.env: unset variables are empty
Env(apiKey, voiceId, webhook, secret) ==
    [ELEVENLABS_API_KEY |-> apiKey, ELEVENLABS_VOICE_ID |-> voiceId,
     ELEVENLABS_CONVAI_WEBHOOK |-> webhook, ELEVENLABS_WEBHOOK_SECRET |-> secret]

Envs(keys) ==
    {Env(k, v, w, s) : k \in keys, v \in {"", "voice"}, w \in {"", "https://hook"},
                       s \in {"", "s3cret"}}

\* red(v) of GET /diag
red(v) ==
    IF v = << >> THEN << >>
    ELSE IF Len(v) > PreviewLimit
    THEN SubSeq(v, 1, 4) \o <<"...">> \o SubSeq(v, Len(v) - 3, Len(v))
    ELSE v

\* JSON.stringify(payload): the properties in insertion order
stringify(payload) ==
    <<<<"title", payload.title>>, <<"knowledge_base", payload.knowledge_base>>,
      <<"timestamp", payload.timestamp>>, <<"mode", payload.mode>>>>

\* crypto.createHmac('sha256', secret).update(message).digest('hex')
hmacSha256Hex(secret, message) == [hmac |-> "sha256", key |-> secret, of |-> message]

signedMessage_TimestampOnly(timestamp, body) == <<timestamp, ".">>

\* `${timestamp}.${JSON.stringify(payload)}`
signedMessage(timestamp, body) == <<timestamp, ".", body>>

\* the headers of the webhook request
webhookHeaders(secret, timestamp, body) ==
    {<<"Content-Type", "application/json">>, <<"User-Agent", "ElevenLabs-KB-Pusher/1.0">>}
        \cup (IF secret # ""
              THEN {<<"elevenlabs-signature",
                      [t |-> timestamp,
                       v0 |-> hmacSha256Hex(secret, signedMessage(timestamp, body))]>>}
              ELSE {})

\* pushToElevenLabs(args), with the clock at the time of the call, the
\* milliseconds that pass before the second reading of the clock, and the
\* outcome of the request it makes: the requests made and how it ends
pushToElevenLabs(args, clock, lag, net) ==
    IF args.mode = "convai"
    THEN IF args.convaiWebhookUrl = ""
         THEN [threw |-> TRUE, sent |-> << >>, mode |-> "convai"]
         ELSE LET payload == [title |-> args.kbTitle, knowledge_base |-> args.kbText,
                              timestamp |-> [iso |-> clock], mode |-> "convai"]
                  timestamp == (clock + lag) \div 1000
                  request == [to |-> args.convaiWebhookUrl,
                              headers |-> webhookHeaders(args.convaiWebhookSecret,
                                                         timestamp, stringify(payload)),
                              body |-> stringify(payload)]
              IN  [threw |-> net # "ok", sent |-> <<request>>, mode |-> "convai"]
    ELSE IF args.mode = "tts"
    THEN IF args.voiceId = ""
         THEN [threw |-> TRUE, sent |-> << >>, mode |-> "tts"]
         ELSE [threw |-> net # "ok",
               sent |-> <<[to |-> "text-to-speech", headers |-> {<<"xi-api-key", args.apiKey>>},
                           body |-> <<args.kbTitle, args.kbText>>]>>,
               mode |-> "tts"]
    ELSE [threw |-> TRUE, sent |-> << >>, mode |-> args.mode]

\* the keys of requiredVars in POST /push
requiredVars(mode) ==
    {"ELEVENLABS_API_KEY", "ELEVENLABS_VOICE_ID"}
        \cup (IF mode = "convai"
              THEN {"ELEVENLABS_CONVAI_WEBHOOK", "ELEVENLABS_WEBHOOK_SECRET"}
              ELSE {})

\* a variable is missing when its value is falsy
missingVars(env, mode) ==
    {v \in requiredVars(mode) :
        IF v = "ELEVENLABS_API_KEY" THEN env[v] = << >> ELSE env[v] = ""}

\* the answer of POST /push and the requests made on the way
push(env, fs, project, mode, clock, lag, net) ==
    IF project = "" \/ mode = ""
    THEN [status |-> 400, error |-> "project and mode required", missing |-> {}, sent |-> << >>]
    ELSE LET kb == assembleKB(fs, project)
             out == pushToElevenLabs(
                        [apiKey |-> env.ELEVENLABS_API_KEY, mode |-> mode,
                         voiceId |-> env.ELEVENLABS_VOICE_ID,
                         convaiWebhookUrl |-> env.ELEVENLABS_CONVAI_WEBHOOK,
                         convaiWebhookSecret |-> env.ELEVENLABS_WEBHOOK_SECRET,
                         kbTitle |-> kb.title, kbText |-> kb.text],
                        clock, lag, net)
         IN  IF kb.kind # "ok"
             THEN [status |-> 400, error |-> kb.kind, missing |-> {}, sent |-> << >>]
             ELSE IF missingVars(env, mode) # {}
             THEN [status |-> 400, error |-> "Missing required environment variables",
                   missing |-> missingVars(env, mode), sent |-> << >>]
             ELSE IF out.threw
             THEN [status |-> 400, error |-> "push failed", missing |-> {}, sent |-> out.sent]
             ELSE [status |-> 200, error |-> "", missing |-> {}, sent |-> out.sent]

\* the answer of GET /diag
diag(env) ==
    [have_API_KEY |-> env.ELEVENLABS_API_KEY # << >>,
     API_KEY_preview |-> red(env.ELEVENLABS_API_KEY),
     WEBHOOK_URL |-> env.ELEVENLABS_CONVAI_WEBHOOK,
     have_WEBHOOK_SECRET |-> env.ELEVENLABS_WEBHOOK_SECRET # ""]

\* Date.now() at the call, and the milliseconds until it is read again
Clocks == {<<1999, 1>>, <<61000, 0>>}

Modes == {"", "convai", "tts", "audio"}

\* the app with its environment and project store, and the last two answers
App(env, fs) ==
    [on |-> TRUE, env |-> env, fs |-> fs,
     resp |-> [op |-> "none"], prev |-> [op |-> "none"]]

AppStep(resp) ==
    /\ app' = [app EXCEPT !.resp = resp, !.prev = app.resp]
    /\ UNCHANGED <<session, peer, hook, node>>

AppInit ==
    /\ SessionInit
    /\ peer = Idle /\ hook = Idle /\ node = Idle
    /\ app \in {App(env, fs) : env \in Envs({Key(0), Key(MaxKeyLen)}), fs \in Stores}

\* GET /projects
GetProjects ==
    /\ app.on
    /\ AppStep([op |-> "listProjects", out |-> listProjects(app.fs)])

\* GET /kb/:key
GetKB(key) ==
    /\ app.on
    /\ AppStep([op |-> "assembleKB", key |-> key, out |-> assembleKB(app.fs, key)])

\* POST /push
PostPush(project, mode, clock, lag, net) ==
    /\ app.on
    /\ AppStep([op |-> "push", project |-> project, mode |-> mode,
                out |-> push(app.env, app.fs, project, mode, clock, lag, net)])

\* pushToElevenLabs called with arguments of the caller's choice
CallPush(secret, url, title, clock, lag, net) ==
    /\ app.on
    /\ AppStep([op |-> "pushToElevenLabs", secret |-> secret,
                out |-> pushToElevenLabs(
                           [apiKey |-> Key(MaxKeyLen), mode |-> "convai", voiceId |-> "",
                            convaiWebhookUrl |-> url, convaiWebhookSecret |-> secret,
                            kbTitle |-> title, kbText |-> <<"k">>],
                           clock, lag, net)])

AppNext ==
    \/ GetProjects
    \/ \E key \in Keys : GetKB(key)
    \/ \E project \in {"", "alpha", "ghost"}, mode \in Modes, c \in Clocks,
          net \in {"ok", "notOk"} :
            PostPush(project, mode, c[1], c[2], net)
    \/ \E secret \in {"", "s3cret"}, url \in {"", "https://hook"}, title \in {"alpha", "beta"},
          c \in Clocks :
            CallPush(secret, url, title, c[1], c[2], "ok")

AppSpec == AppInit /\ [][AppNext]_vars

\* GET /diag
GetDiag ==
    /\ app.on
    /\ AppStep([op |-> "diag", out |-> diag(app.env)])

DiagInit ==
    /\ SessionInit
    /\ peer = Idle /\ hook = Idle /\ node = Idle
    /\ app \in {App(env, NoStore) : env \in Envs(ApiKeys)}

DiagSpec == DiagInit /\ [][GetDiag]_vars

----------------------------------------------------------------------------
(* The Node /ws proxy: wss.on('connection') of src/unnamed/part_000 *)

MaxNodeEvents == 3   \* frames received per connection of the Node proxy

NotConnectedText == "Not connected to upstream service"

\* the bytes received, sent on as the Buffer they came in
Raw(m) == [raw |-> m]

\* JSON.stringify(message) of the parsed frame
Restringified(m) == [json |-> m]

\* JSON.stringify({user_audio_chunk: undefined})
EmptyObject == [json |-> "{}"]

\* the frames the Node listeners are given: a binary frame stands for bytes
\* that are no JSON text
NodeClientMsgs ==
    {ClientData("text", "object", "ping", "absent", "", FALSE),
     ClientData("text", "object", "none", "O+", "", FALSE),
     ClientData("text", "object", "none", "S", "", FALSE),
     ClientData("text", "object", "user_message", "absent", "T", FALSE),
     ClientData("text", "object", "user_message", "absent", "N", FALSE),
     ClientData("text", "null", "none", "absent", "", FALSE),
     ClientData("text", "scalar", "none", "absent", "", FALSE),
     ClientData("text", "invalid", "none", "absent", "", FALSE),
     ClientData("binary", "none", "none", "absent", "", FALSE)}

NodeUpstreamMsgs ==
    {UpstreamData("text", "object", "pong", "", "", "", "", "", ""),
     UpstreamData("text", "object", "none", "A1", "", "", "M1", "", ""),
     UpstreamData("text", "object", "none", "", "A2", "", "", "", ""),
     UpstreamData("text", "object", "agent_response", "", "", "", "", "", ""),
     UpstreamData("text", "null", "none", "", "", "", "", "", ""),
     UpstreamData("text", "invalid", "none", "", "", "", "", "", ""),
     UpstreamData("binary", "none", "none", "", "", "", "", "", "")}

\* what the client 'message' listener sends; connected is
\* isConnected && upstream.readyState === WebSocket.OPEN
nodeClientFrame(m, connected) ==
    IF m.json \in {"invalid", "none", "null"}
    THEN \* JSON.parse, or reading message.type of null, throws: the catch logs
         [toClient |-> NoFrames, toUpstream |-> NoFrames]
    ELSE IF ~connected
    THEN [toClient |-> <<Frame("error", NotConnectedText, "none")>>, toUpstream |-> NoFrames]
    ELSE IF m.json = "object" /\ m.chunk \notin {"absent", ""}
    THEN [toClient |-> NoFrames,
          toUpstream |-> IF m.chunk = "O+" THEN <<[user_audio_chunk |-> "B"]>>
                         ELSE <<EmptyObject>>]
    ELSE IF m.json = "object" /\ m.type = "user_message" /\ m.text # ""
    THEN \* text.substring of a value that is not a string throws
         [toClient |-> NoFrames,
          toUpstream |-> IF m.text = "T" THEN <<[type |-> "user_message", text |-> m.text]>>
                         ELSE NoFrames]
    ELSE [toClient |-> NoFrames, toUpstream |-> <<Restringified(m)>>]

\* what the upstream 'message' listener sends to the client; valid is whether
\* atob accepts the first 100 characters of the audio
nodeUpstreamFrame(m, valid) ==
    IF m.json \in {"invalid", "none", "null"}
    THEN <<Raw(m)>>
    ELSE IF m.json = "object" /\ Or3(m.top, m.ae, m.data) # ""
    THEN IF valid
         THEN <<[type |-> "audio", audio_base_64 |-> Or3(m.top, m.ae, m.data),
                 mime |-> Or3(m.mTop, m.mAe, Or3(m.mData, DefaultMime, DefaultMime))]>>
         ELSE NoFrames
    ELSE <<Verbatim(m)>>

\* client.send(x): the frames that reach the wire; on a socket that is not
\* open the call throws into the surrounding catch or is dropped by the
\* library, with the same result
clientSends(frames) == IF node.client = "open" THEN frames ELSE NoFrames

\* client.close()
clientClose == IF node.client = "open" THEN "closing" ELSE node.client

NodeStep(name, arg, toClient, toUpstream) ==
    [name |-> name, arg |-> arg, toClient |-> toClient, toUpstream |-> toUpstream]

\* a client has connected: the handler awaits assembleKB
NodeInit ==
    /\ SessionInit
    /\ peer = Idle /\ hook = Idle /\ app = Idle
    /\ node = [on |-> TRUE, pc |-> "assemble", listening |-> FALSE, isConnected |-> FALSE,
               upstream |-> "none", client |-> "open", events |-> 0,
               openArrivals |-> 0, sentUp |-> 0,
               last |-> NodeStep("none", "none", NoFrames, NoFrames)]

NodeDo(n) == node' = n /\ UNCHANGED <<session, peer, hook, app>>

\* the catch of the handler, and the early return for missing variables
NodeSetupFailed(name, arg) ==
    NodeDo([node EXCEPT !.pc = "done", !.client = clientClose,
                        !.last = NodeStep(name, arg,
                                          clientSends(<<Frame("error", arg, "none")>>),
                                          NoFrames)])

\* assembleKB settles; then the environment is read
NodeAssembled(o) ==
    /\ node.on /\ node.pc = "assemble"
    /\ IF o = "ok"
       THEN NodeDo([node EXCEPT !.pc = "sign",
                                !.last = NodeStep("NodeAssembled", o, NoFrames, NoFrames)])
       ELSE NodeSetupFailed("NodeAssembled", o)

\* getSignedWsUrl settles; the upstream socket is created and every listener
\* is attached
NodeSigned(o) ==
    /\ node.on /\ node.pc = "sign"
    /\ IF o = "ok"
       THEN NodeDo([node EXCEPT !.pc = "connect", !.upstream = "connecting",
                                !.listening = TRUE,
                                !.last = NodeStep("NodeSigned", o, NoFrames, NoFrames)])
       ELSE NodeSetupFailed("NodeSigned", o)

\* upstream 'open'
NodeUpstreamOpen ==
    /\ node.on /\ node.upstream = "connecting"
    /\ NodeDo([node EXCEPT !.pc = "open", !.upstream = "open", !.isConnected = TRUE,
                           !.last = NodeStep("NodeUpstreamOpen", "none",
                                             clientSends(<<Frame("info", WelcomeText, "none")>>),
                                             NoFrames)])

\* upstream 'unexpected-response', its body read
NodeUnexpectedResponse ==
    /\ node.on /\ node.upstream = "connecting"
    /\ NodeDo([node EXCEPT !.pc = "done", !.upstream = "closed", !.client = clientClose,
                           !.last = NodeStep("NodeUnexpectedResponse", "none",
                                             clientSends(<<Frame("error", "failed", "none")>>),
                                             NoFrames)])

\* upstream 'message'
NodeUpstreamMessage(m, valid) ==
    /\ node.on /\ node.upstream \in {"open", "closing"}
    /\ node.events < MaxNodeEvents
    /\ NodeDo([node EXCEPT !.events = @ + 1,
                           !.last = NodeStep("NodeUpstreamMessage", m,
                                             clientSends(nodeUpstreamFrame(m, valid)),
                                             NoFrames)])

\* upstream 'close' and 'error'
NodeUpstreamDown(event) ==
    /\ node.on /\ node.upstream \in {"connecting", "open", "closing"}
    /\ event = "close" => node.upstream # "connecting"
    /\ NodeDo([node EXCEPT !.pc = "done", !.isConnected = FALSE,
                           !.upstream = IF event = "close" THEN "closed" ELSE "closing",
                           !.client = clientClose,
                           !.last = NodeStep("NodeUpstreamDown", event,
                                             clientSends(<<Frame(IF event = "close" THEN "info"
                                                                 ELSE "error",
                                                                 event, "none")>>),
                                             NoFrames)])

\* a frame from the client arrives; without a 'message' listener the event
\* is emitted to nobody
NodeClientMessage(m) ==
    /\ node.on /\ node.client \in {"open", "closing"}
    /\ node.events < MaxNodeEvents
    /\ LET connected == node.isConnected /\ node.upstream = "open"
           out == IF node.listening THEN nodeClientFrame(m, connected)
                  ELSE [toClient |-> NoFrames, toUpstream |-> NoFrames]
       IN  NodeDo([node EXCEPT !.events = @ + 1,
                               !.openArrivals = IF connected THEN @ + 1 ELSE @,
                               !.sentUp = @ + Len(out.toUpstream),
                               !.last = NodeStep("NodeClientMessage", m,
                                                 clientSends(out.toClient),
                                                 out.toUpstream)])

\* client 'close'
NodeClientClose ==
    /\ node.on /\ node.client # "closed"
    /\ NodeDo([node EXCEPT !.client = "closed",
                           !.isConnected = IF node.listening THEN FALSE ELSE @,
                           !.upstream = IF node.listening /\ @ \in {"connecting", "open"}
                                        THEN "closing" ELSE @,
                           !.last = NodeStep("NodeClientClose", "none", NoFrames, NoFrames)])

NodeNext ==
    \/ \E o \in {"ok", "project not found", "Missing env vars"} : NodeAssembled(o)
    \/ \E o \in {"ok", "signed-url 401"} : NodeSigned(o)
    \/ NodeUpstreamOpen
    \/ NodeUnexpectedResponse
    \/ \E m \in NodeUpstreamMsgs, valid \in BOOLEAN : NodeUpstreamMessage(m, valid)
    \/ \E event \in {"close", "error"} : NodeUpstreamDown(event)
    \/ \E m \in NodeClientMsgs : NodeClientMessage(m)
    \/ NodeClientClose

NodeSpec == NodeInit /\ [][NodeNext]_vars

----------------------------------------------------------------------------
(* The states of the design, read off the handler's state *)

Accepted == server.exists /\ server.accepted

SessionState ==
    CASE pc = "init" -> "INIT"
      [] pc = "signing" -> "NEGOTIATING"
      [] pc = "handshake" -> "CONNECTING_UPSTREAM"
      [] pc \in {"returned", "threw"} /\ ~Accepted -> "REJECTED"
      [] pc \in {"returned", "threw"} /\ Accepted ->
            IF readyState(server) # 1 \/ (upstream.exists /\ readyState(upstream) # 1)
            THEN "CLOSED"
            ELSE IF isConnected THEN "OPEN" ELSE "ABORTED"

TimersCancelled == ~pingInterval.armed /\ ~healthCheckInterval.armed

\* the handshake request was answered and gave no usable socket
SetupFailed == pc \in {"returned", "threw"} /\ handshakeReqs = 1 /\ ~upstream.exists

----------------------------------------------------------------------------
(* Claims *)

\* C1: after a handshake response with a status other than 101 the session
\* was never OPEN (no welcome, no listeners, no timers), the one frame sent to
\* the client is an error frame with that status whose text is the
\* authentication text for 403, the agent-not-found text for 404 and the
\* generic text otherwise, and the client socket was closed once, with 1008.
C1_RefusedHandshake ==
    (last.name = "HandshakeRespond" /\ last.arg \in Statuses \ {"101"}) =>
        /\ ~everOpen /\ ~isConnected /\ ~listeners /\ TimersCancelled
        /\ ~upstream.exists
        /\ clientSent = 1
        /\ last.toClient =
              <<[type |-> "error",
                 text |-> IF last.arg = "403" THEN AuthText
                          ELSE IF last.arg = "404" THEN NotFoundText
                          ELSE GenericText,
                 status |-> last.arg]>>
        /\ server.closeCalls = 1
        /\ server.closedOut
        /\ server.closeCode = 1008

C1_Witness ==
    /\ last.name = "HandshakeRespond" /\ last.arg = "403"
    /\ server.closeCode = 1008 /\ clientSent = 1

\* C2: a session issues at most one upstream handshake request and has an
\* upstream socket only from a 101 answer to it; when the handshake fails
\* (non-101, 101 without a socket, rejected fetch) the session is CLOSED and
\* was never OPEN: isConnected never true, no listeners, no timers.
C2_SingleUpstream ==
    /\ handshakeReqs <= 1
    /\ upstream.exists => (handshakeReqs = 1 /\ httpStatus = "101")
    /\ SetupFailed =>
          /\ SessionState = "CLOSED"
          /\ ~everOpen /\ ~isConnected /\ ~listeners /\ TimersCancelled

C2_Witness ==
    /\ SetupFailed
    /\ last.name = "HandshakeRespond" /\ last.arg = "none"
    /\ httpStatus = "502"

\* C3: a health check that runs when no frame has arrived from the client or
\* from upstream for more than 90 s sends the client the inactivity error and
\* then closes the client socket with code 1000.
C3_IdleForceClose ==
    (last.name = "HealthTick" /\ now - lastMsg > IdleThreshold) =>
        /\ last.toClient = <<Frame("error", IdleText, "none")>>
        /\ server.closedOut /\ server.closeCode = 1000
        /\ TimersCancelled

\* C4: after OPEN, whatever the upstream socket's readyState, a {type:"ping"}
\* frame from the client leads to no send on the upstream socket and to
\* exactly one pong frame sent to the client.
C4_PingAnsweredLocally ==
    (last.name = "ClientMessage" /\ last.arg.json = "object" /\ last.arg.type = "ping") =>
        /\ last.toUpstream = NoFrames
        /\ last.toClient = <<Frame("pong", "", "none")>>

\* C5: when the first close or error event of an OPEN session is on the
\* upstream socket, close() is called on the client socket exactly once,
\* however many upstream close and error events follow, and both timers are
\* cancelled.
C5_UpstreamTeardown ==
    firstDown = "upstream" =>
        /\ server.closeCalls = 1
        /\ server.closedOut
        /\ TimersCancelled

C5_Witness ==
    /\ firstDown = "upstream"
    /\ upstream.closeFired /\ upstream.errorFired
    /\ server.closeCalls = 1

\* C6: once a close or error event has fired on either socket, neither socket
\* is open; close() was called once on the socket of the other side and
\* never on the side of the first event, whatever events followed; close() is
\* never called on a socket that is not open.
C6_ClosureSymmetry ==
    /\ server.lateCloses = 0 /\ upstream.lateCloses = 0
    /\ server.closeCalls <= 1 /\ upstream.closeCalls <= 1
    /\ firstDown # "none" => (readyState(server) # 1 /\ readyState(upstream) # 1)
    /\ firstDown = "server" => (upstream.closeCalls = 1 /\ server.closeCalls = 0)
    /\ firstDown = "upstream" => (server.closeCalls = 1 /\ upstream.closeCalls = 0)

C6_Witness ==
    /\ firstDown = "server"
    /\ server.closeFired /\ server.errorFired
    /\ upstream.closeFired /\ upstream.errorFired
    /\ upstream.closeCalls = 1

\* C7: whenever the session is CLOSED, both intervals are cancelled.
C7_TimersCancelledWhenClosed == SessionState = "CLOSED" => TimersCancelled

C7_Witness ==
    /\ SessionState = "CLOSED" /\ everOpen
    /\ last.name = "ServerError"
    /\ now >= PingPeriod

\* C8: a 2xx answer to the signed-URL request whose body has no signed_url
\* makes the session go on to the upstream handshake with the public-agent URL.
C8_MalformedBodyFallsBack ==
    (last.name = "SignRespond" /\ last.arg = "noField") =>
        /\ signedUrl = PublicAgentUrl
        /\ pc = "handshake"
        /\ handshakeReqs = 1

\* C9: when the signed-URL request is answered non-2xx, is rejected or times
\* out, the session is not closed: signedUrl is the public-agent URL and one
\* upstream handshake request is issued, with the xi-api-key header.
C9_SigningFailureFallsBack ==
    (last.name \in {"SignRespond", "SignTimedOut"}
        /\ last.arg \in {"notOk", "throws", "timeout"}) =>
        /\ signedUrl = PublicAgentUrl
        /\ pc = "handshake"
        /\ handshakeReqs = 1
        /\ "xi-api-key" \in wsHeaders
        /\ readyState(server) = 1 /\ server.closeCalls = 0
        /\ clientSent = 0

C9_Witness ==
    /\ last.name = "SignTimedOut" /\ last.arg = "timeout"
    /\ pc = "handshake" /\ "xi-api-key" \in wsHeaders

\* C10: each of the two setup requests is issued at most once and is pending
\* for no longer than a fixed timeout (8 s is the longest the design allows).
C10_BoundedSetup ==
    /\ signReqs <= 1 /\ handshakeReqs <= 1
    /\ pc \in {"signing", "handshake"} => now - reqStart <= 8000

\* C11: a frame from the client that arrives while the upstream socket is not
\* open leads to exactly one error frame sent to the client and to no send on
\* the upstream socket.
C11_NoQueuing ==
    (last.name = "ClientMessage" /\ readyState(upstream) # 1) =>
        /\ last.toClient = <<Frame("error", LostText, "none")>>
        /\ last.toUpstream = NoFrames

\* C12 (as stated): while the client socket is open, an upstream JSON object
\* carrying a non-empty audio_base_64 at the top level, in audio_event or in
\* data makes the proxy send exactly one {type: "audio", audio_base_64, mime}
\* frame to the client, with the audio value the object carries and the mime it
\* carries, or "audio/mpeg" when it carries none.
C12_AudioNormalized ==
    LET m == last.arg
        audio == {m.top, m.ae, m.data} \ {""}
        mimes == {m.mTop, m.mAe, m.mData} \ {""}
    IN  (/\ last.name = "UpstreamMessage"
         /\ readyState(server) = 1
         /\ m.form = "text" /\ m.json = "object"
         /\ audio # {}) =>
            last.toClient \in
                {<<[type |-> "audio", audio_base_64 |-> v, mime |-> x]>> :
                    v \in audio, x \in IF mimes = {} THEN {"audio/mpeg"} ELSE mimes}

\* C12 (amended): the same for every such object whose type is not "pong"; an
\* object of type "pong" that carries audio is consumed and nothing reaches
\* the client.
C12_AudioNormalizedUnlessPong ==
    LET m == last.arg
        audio == {m.top, m.ae, m.data} \ {""}
        mimes == {m.mTop, m.mAe, m.mData} \ {""}
    IN  (/\ last.name = "UpstreamMessage"
         /\ readyState(server) = 1
         /\ m.form = "text" /\ m.json = "object"
         /\ audio # {}) =>
            IF m.type = "pong"
            THEN last.toClient = << >>
            ELSE last.toClient \in
                    {<<[type |-> "audio", audio_base_64 |-> v, mime |-> x]>> :
                        v \in audio, x \in IF mimes = {} THEN {"audio/mpeg"} ELSE mimes}

\* audio under audio_event with the mime under data, normalised
C12_Witness ==
    /\ last.name = "UpstreamMessage"
    /\ last.arg.type = "agent_response"
    /\ last.arg.top = "" /\ last.arg.ae = "A2"
    /\ last.arg.mTop = "" /\ last.arg.mAe = "" /\ last.arg.mData = "M3"
    /\ last.toClient = <<[type |-> "audio", audio_base_64 |-> "A2", mime |-> "M3"]>>

\* C13: while the client socket is open, an upstream JSON object of type
\* "pong" puts no frame on the client socket, and every other upstream frame
\* without an audio payload (JSON object, other JSON, text that is not JSON,
\* binary) puts exactly one frame there, the frame as it was received.
C13_PassThrough ==
    LET m == last.arg
        object == m.form = "text" /\ m.json = "object"
        pong == object /\ m.type = "pong"
        audio == object /\ {m.top, m.ae, m.data} # {""}
    IN  (last.name = "UpstreamMessage" /\ readyState(server) = 1) =>
            /\ pong => last.toClient = << >>
            /\ (~pong /\ ~audio) => last.toClient = <<[verbatim |-> m]>>

\* the JSON text "null", whose type cannot be read, reaches the client as is
C13_Witness ==
    /\ last.name = "UpstreamMessage"
    /\ last.arg.json = "null"
    /\ last.toClient = <<[verbatim |-> last.arg]>>
    /\ clientSent = 2

\* C14 (as stated): while both sockets are open each client frame causes
\* exactly one send: a ping is answered to the client; otherwise an object
\* with a user_audio_chunk field goes upstream as {user_audio_chunk: <base64
\* string>}; otherwise {type: "user_message", text} with a non-empty text goes
\* upstream as exactly that pair; every other frame goes upstream as it came.
C14_ClientTranslation ==
    LET m == last.arg
        object == m.form = "text" /\ m.json = "object"
        ping == object /\ m.type = "ping"
        chunk == object /\ ~ping /\ m.chunk # "absent"
        userMessage == object /\ ~ping /\ ~chunk /\ m.type = "user_message" /\ m.text = "T"
    IN  (/\ last.name = "ClientMessage"
         /\ readyState(upstream) = 1 /\ readyState(server) = 1) =>
            /\ Len(last.toClient) + Len(last.toUpstream) = 1
            /\ ping => last.toClient = <<[type |-> "pong", text |-> "", status |-> "none"]>>
            /\ chunk => last.toUpstream \in {<<[user_audio_chunk |-> b]>> : b \in {"S", "B"}}
            /\ userMessage => last.toUpstream = <<[type |-> "user_message", text |-> "T"]>>
            /\ (~ping /\ ~chunk /\ ~userMessage) => last.toUpstream = <<[verbatim |-> m]>>

\* C14 (amended): the same, where the audio rule holds for a user_audio_chunk
\* that is neither absent nor empty, and what goes upstream under
\* user_audio_chunk is the chunk's own audio_base_64 when it has one and the
\* chunk itself otherwise, a string or not; an object with an empty
\* user_audio_chunk falls to the rules after it.
C14_ClientTranslationOfNonEmptyChunk ==
    LET m == last.arg
        object == m.form = "text" /\ m.json = "object"
        ping == object /\ m.type = "ping"
        chunk == object /\ ~ping /\ m.chunk \notin {"absent", ""}
        userMessage == object /\ ~ping /\ ~chunk /\ m.type = "user_message" /\ m.text = "T"
    IN  (/\ last.name = "ClientMessage"
         /\ readyState(upstream) = 1 /\ readyState(server) = 1) =>
            /\ Len(last.toClient) + Len(last.toUpstream) = 1
            /\ ping => last.toClient = <<[type |-> "pong", text |-> "", status |-> "none"]>>
            /\ chunk =>
                  last.toUpstream =
                      <<[user_audio_chunk |-> CASE m.chunk = "O+" -> "B"
                                                [] m.chunk = "O-" -> "O-"
                                                [] m.chunk = "S" -> "S"]>>
            /\ userMessage => last.toUpstream = <<[type |-> "user_message", text |-> "T"]>>
            /\ (~ping /\ ~chunk /\ ~userMessage) => last.toUpstream = <<[verbatim |-> m]>>

\* a user_message that also carries an audio chunk object: the audio goes up
C14_Witness ==
    /\ last.name = "ClientMessage"
    /\ last.arg.type = "user_message" /\ last.arg.text = "T" /\ last.arg.chunk = "O+"
    /\ last.toUpstream = <<[user_audio_chunk |-> "B"]>>
    /\ last.toClient = << >>

\* C15: in each direction the frames relayed appear in the order in which the
\* frames that caused them arrived.
C15_PerDirectionOrder ==
    \A d \in {"up", "client"} :
        \A i, j \in 1..Len(fwd[d]) : i < j => fwd[d][i] <= fwd[d][j]

\* two client frames relayed upstream, with an upstream frame consumed or
\* relayed in between or not
C15_Witness ==
    /\ Len(fwd.up) = 2
    /\ fwd.up[1] < fwd.up[2]
    /\ last.name = "ClientMessage"
    /\ last.arg.type = "user_message"

\* C16: no exception escapes the fetch handler, and an accepted session whose
\* handler has ended is OPEN or CLOSED.
C16_ErrorBoundary ==
    /\ pc # "threw"
    /\ SessionState # "ABORTED"

\* C17: when the handshake request is rejected, the session was never OPEN,
\* the one frame sent to the client is an error frame with the
\* connection-level text, the client socket is closed with 1011 and the
\* upgrade request is answered 502.
C17_HandshakeRejected ==
    (last.name = "HandshakeRespond" /\ last.arg = "none") =>
        /\ ~everOpen /\ ~isConnected /\ ~listeners /\ TimersCancelled
        /\ clientSent = 1
        /\ last.toClient = <<[type |-> "error", text |-> CaughtText, status |-> "none"]>>
        /\ server.closedOut /\ server.closeCalls = 1 /\ server.closeCode = 1011
        /\ pc = "returned" /\ httpStatus = "502"

C17_Witness ==
    /\ last.name = "HandshakeRespond" /\ last.arg = "none"
    /\ server.closeCode = 1011 /\ clientSent = 1 /\ handshakeReqs = 1

\* C18: the upgrade request is answered 101 exactly when the session became
\* OPEN; the step that opens the session sends the welcome frame as the first
\* frame to the client, and no other step sends a welcome frame.
C18_WelcomeOnOpen ==
    LET Welcome == [type |-> "info", text |-> WelcomeText, status |-> "none"]
        InLast == \E i \in DOMAIN last.toClient : last.toClient[i] = Welcome
    IN  /\ httpStatus = "101" <=> everOpen
        /\ everOpen <=> (upstream.exists /\ listeners)
        /\ everOpen => clientSent >= 1
        /\ (last.name = "HandshakeRespond" /\ last.arg = "101" /\ upstream.exists) =>
              (everOpen /\ last.toClient = <<Welcome>> /\ clientSent = 1)
        /\ InLast => (last.name = "HandshakeRespond" /\ clientSent = 1)

C18_Witness ==
    /\ last.name = "HandshakeRespond" /\ last.arg = "101"
    /\ everOpen /\ httpStatus = "101" /\ clientSent = 1

\* C19: a request to the provider has been issued, or a frame sent to the
\* client, only on an accepted client socket.
C19_AcceptFirst ==
    (signReqs > 0 \/ handshakeReqs > 0 \/ clientSent > 0) => Accepted

C19_Witness ==
    /\ pc = "signing" /\ signReqs = 1 /\ Accepted /\ handshakeReqs = 0

\* C20: every close the proxy made on the client socket carries one of the
\* codes 1000, 1008 and 1011.
C20_CloseCodes ==
    server.closedOut => server.closeCode \in {1000, 1008, 1011}

\* C24: a push for a project that assembles is answered 400, with the
\* missing variables named and no webhook or speech request made, when a
\* variable its mode requires is unset (the API key always, the webhook URL
\* for convai, the voice id for tts); a convai push with the API key and the
\* webhook URL set is not rejected for a missing variable.
C24_PushPreconditions ==
    LET mode == app.resp.mode
        required == {"ELEVENLABS_API_KEY"}
                        \cup (IF mode = "convai" THEN {"ELEVENLABS_CONVAI_WEBHOOK"} ELSE {})
                        \cup (IF mode = "tts" THEN {"ELEVENLABS_VOICE_ID"} ELSE {})
        unset == {v \in required :
                    IF v = "ELEVENLABS_API_KEY" THEN app.env[v] = << >> ELSE app.env[v] = ""}
    IN  (/\ app.on /\ app.resp.op = "push"
         /\ mode \in {"convai", "tts"}
         /\ app.resp.project = "alpha"
         /\ app.resp.out.error \notin {"notFound", "typeError", "docError"}) =>
            /\ unset # {} =>
                  /\ app.resp.out.status = 400
                  /\ unset \subseteq app.resp.out.missing
                  /\ app.resp.out.sent = << >>
            /\ (mode = "convai" /\ unset = {}) => app.resp.out.missing = {}

\* C25: the API_KEY_preview of GET /diag differs from the configured API
\* key, whatever its length, and the webhook secret appears as a boolean.
C25_DiagRedaction ==
    (app.on /\ app.resp.op = "diag" /\ app.env.ELEVENLABS_API_KEY # << >>) =>
        /\ app.resp.out.API_KEY_preview # app.env.ELEVENLABS_API_KEY
        /\ app.resp.out.have_WEBHOOK_SECRET \in BOOLEAN

\* C26: a webhook request of a convai push carries elevenlabs-signature
\* exactly when a secret was given; its value is t=<ts>,v0=<hex> with <hex>
\* the HMAC-SHA256 under the secret of <ts>.<body>, <ts> the one of the
\* header and <body> the body of the request; and of two signed requests
\* whose bodies differ the signed strings differ.
C26_WebhookSignature ==
    LET Hooked(resp) == /\ resp.op \in {"push", "pushToElevenLabs"}
                        /\ resp.out.sent # << >>
                        /\ resp.out.sent[1].to = "https://hook"
        Secret(resp) == IF resp.op = "push" THEN app.env.ELEVENLABS_WEBHOOK_SECRET
                        ELSE resp.secret
        Signatures(resp) == {h \in resp.out.sent[1].headers : h[1] = "elevenlabs-signature"}
    IN  (app.on /\ Hooked(app.resp)) =>
            /\ Signatures(app.resp) # {} <=> Secret(app.resp) # ""
            /\ Cardinality(Signatures(app.resp)) <= 1
            /\ \A h \in Signatures(app.resp) :
                  /\ h[2].t \in Nat
                  /\ h[2].v0 = [hmac |-> "sha256", key |-> Secret(app.resp),
                                of |-> <<h[2].t, ".", app.resp.out.sent[1].body>>]
            /\ Hooked(app.prev) =>
                  \A h \in Signatures(app.resp), g \in Signatures(app.prev) :
                      app.resp.out.sent[1].body # app.prev.out.sent[1].body =>
                          h[2].v0.of # g[2].v0.of

\* two signed pushes of different titles at the same time
C26_Witness ==
    /\ app.on
    /\ app.resp.op = "pushToElevenLabs" /\ app.prev.op = "pushToElevenLabs"
    /\ app.resp.secret = "s3cret" /\ app.prev.secret = "s3cret"
    /\ app.resp.out.sent # << >> /\ app.prev.out.sent # << >>
    /\ app.resp.out.sent[1].body[1] = <<"title", "alpha">>
    /\ app.prev.out.sent[1].body[1] = <<"title", "beta">>
    /\ app.resp.out.sent[1].body[3] = app.prev.out.sent[1].body[3]
    /\ \E h \in app.resp.out.sent[1].headers :
          h[1] = "elevenlabs-signature" /\ h[2].t = 2

\* C27: assembleKB of a key that names no project directory fails with
\* not-found and listProjects does not list the key; assembleKB of a key
\* that listProjects lists does not fail with not-found; without a project
\* store listProjects is empty.
C27_UnknownProject ==
    LET names == IF app.fs.exists
                 THEN {app.fs.entries[i].name :
                          i \in {n \in 1..Len(app.fs.entries) : app.fs.entries[n].isDirectory}}
                 ELSE {}
        listed == {listProjects(app.fs)[i].key : i \in 1..Len(listProjects(app.fs))}
    IN  /\ (app.on /\ app.resp.op = "assembleKB") =>
              /\ app.resp.key \notin names =>
                    (app.resp.out.kind = "notFound" /\ app.resp.key \notin listed)
              /\ app.resp.key \in listed => app.resp.out.kind # "notFound"
        /\ (app.on /\ app.resp.op = "listProjects" /\ ~app.fs.exists) =>
              app.resp.out = << >>

\* C28: assembleKB of a project directory returns the directory name as
\* title and, as text, the contents of its .txt, .md, .docx and .url files in
\* listing order joined by the separator, the empty text when it has none;
\* it fails when one of them is a .url whose fetch fails; and a second call
\* for the same key returns the same.
C28_IdempotentAssembly ==
    LET key == app.resp.key
        dirs == {i \in 1..Len(app.fs.entries) :
                    app.fs.entries[i].isDirectory /\ app.fs.entries[i].name = key}
        files == app.fs.entries[CHOOSE i \in dirs : TRUE].files
        docs == SelectSeq(files, LAMBDA f : f.ext \in {".txt", ".TXT", ".md", ".MD", ".docx", ".url"})
        broken == \E i \in 1..Len(docs) : docs[i].ext = ".url" /\ ~docs[i].ok
    IN  (app.on /\ app.resp.op = "assembleKB" /\ app.fs.exists /\ dirs # {}) =>
            /\ broken => app.resp.out.kind = "docError" /\ app.resp.out.text = << >>
            /\ ~broken =>
                  /\ app.resp.out.kind = "ok"
                  /\ app.resp.out.title = key
                  /\ app.resp.out.text = join([i \in 1..Len(docs) |-> docs[i].content])
                  /\ docs = << >> => app.resp.out.text = << >>
            /\ (app.prev.op = "assembleKB" /\ app.prev.key = key) =>
                  app.prev.out = app.resp.out

\* two calls for a project of two documents with a file between them that
\* is no document
C28_Witness ==
    /\ app.on
    /\ app.resp.op = "assembleKB" /\ app.prev.op = "assembleKB"
    /\ app.resp.key = "alpha" /\ app.prev.key = "alpha"
    /\ app.resp.out.kind = "ok"
    /\ app.resp.out.text = <<"a", "\n", "\n", "c", "c">>
    /\ app.prev.out = app.resp.out

C21_SessionIndependence ==
    [][LET mine == <<server, upstream, pingInterval, healthCheckInterval,
                     lastActivity, isConnected>>
           mine2 == <<server', upstream', pingInterval', healthCheckInterval',
                      lastActivity', isConnected'>>
           theirs(p) == <<p.server, p.upstream, p.pingInterval, p.healthCheckInterval,
                          p.lastActivity, p.isConnected>>
       IN  /\ peer'.step # peer.step => mine2 = mine
           /\ theirs(peer') # theirs(peer) => mine2 = mine
           /\ mine2 # mine => peer' = peer]_vars

\* the second invocation's handshake was refused and closed its client
\* socket; the first is open with its timers and has since pinged
C21_Witness ==
    /\ peer.on /\ peer.step = "HandshakeFailed" /\ peer.server.closeCode = 1008
    /\ ~peer.pingInterval.armed
    /\ last.name = "PingTick"
    /\ isConnected /\ readyState(server) = 1 /\ readyState(upstream) = 1
    /\ pingInterval.armed /\ healthCheckInterval.armed

\* C22: nothing keeps a second upsert from starting while one is in flight,
\* and this is the only way in which two upserts of one title, both answered
\* 200 with every provider call successful, leave two documents of that
\* title in the store or leave the agent with an entry for a document that
\* the other request deleted.
C22_UpsertRace ==
    /\ \A r \in Requests :
          (hook.req[r].pc = "idle" /\ \E q \in Requests : InFlight(hook.req[q])) =>
              ENABLED Post(r, "ok", "A", "")
    /\ \A r, q \in Requests :
          (/\ r # q
           /\ hook.req[r].status = "200" /\ hook.req[q].status = "200"
           /\ hook.req[r].title = hook.req[q].title
           /\ ~hook.req[r].faults /\ ~hook.req[q].faults
           /\ \/ Cardinality({d \in hook.docs : d.name = hook.req[r].title}) > 1
              \/ \E i \in 1..Len(hook.agent.kb) :
                    [doc |-> hook.agent.kb[i], by |-> q] \in hook.deleted) =>
              hook.req[r].overlapped /\ hook.req[q].overlapped

\* both answered 200 and the agent's only entry is the document of request 1,
\* which request 2 deleted
C22_Witness ==
    /\ hook.req[1].status = "200" /\ hook.req[2].status = "200"
    /\ hook.req[1].title = "A" /\ hook.req[2].title = "A"
    /\ ~hook.req[1].faults /\ ~hook.req[2].faults
    /\ hook.agent.kb = <<hook.req[1].created>>
    /\ [doc |-> hook.req[1].created, by |-> 2] \in hook.deleted
    /\ hook.req[1].created \notin hook.docs

\* C23: right after an upsert that no other upsert overlapped is answered 200,
\* the agent's knowledge_base is the single entry of the document the upsert
\* created, which has the title and is in the store, and the rest of the
\* agent's configuration is what it was.
C23_UpsertResult ==
    \A r \in Requests :
        (/\ hook.last = [name |-> "PatchRespond", r |-> r]
         /\ hook.req[r].status = "200"
         /\ ~hook.req[r].overlapped) =>
            /\ hook.agent.kb = <<hook.req[r].created>>
            /\ hook.req[r].created.name = hook.req[r].title
            /\ hook.req[r].created \in hook.docs
            /\ \E st \in InitialStores : hook.agent.other = st.agent.other
            /\ hook.agent.other = hook.req[r].payload.other

\* a second upsert, started after the first was answered, replaced the two
\* entries the agent had and the first one's
C23_Witness ==
    /\ hook.last = [name |-> "PatchRespond", r |-> 2]
    /\ hook.req[1].status = "200" /\ hook.req[2].status = "200"
    /\ ~hook.req[2].overlapped
    /\ hook.req[2].title = "B"
    /\ hook.agent.kb = <<hook.req[2].created>>
    /\ hook.agent.other = "voice-2"

\* C31: the proxy calls send() on the upstream socket only while that socket
\* is open (keepalive ping, client forwarding) and calls send() on the client
\* socket only while the client socket is open (upstream forwarding, pong,
\* lost-connection error, stats). The listeners and the timer callbacks that
\* send leave both sockets as they found them, so the sockets read here are
\* those the call was made on.
C31_NoSendOnClosedSocket ==
    LET connectionDuration == now - connectionStartTime
        serverSendCalled ==
            \/ last.name = "UpstreamMessage" /\ upstreamFrame(last.arg) # NoFrames
            \/ /\ last.name = "ClientMessage"
               /\ \/ readyState(upstream) # 1
                  \/ clientFrame(last.arg).toClient # NoFrames
            \/ /\ last.name = "HealthTick" /\ last.arg = "alive"
               /\ statsDue(connectionDuration)
        upstreamSendCalled ==
            \/ last.name = "PingTick" /\ last.toUpstream # NoFrames
            \/ last.name = "ClientMessage" /\ last.toUpstream # NoFrames
    IN  /\ upstreamSendCalled => readyState(upstream) = 1
        /\ serverSendCalled => readyState(server) = 1

\* C32: a client frame that reaches the Node proxy while the upstream socket
\* is not open (during assembleKB, during the signed-URL request, before the
\* upstream 'open' event, after upstream went down) is answered with one
\* error frame to the client and nothing is sent upstream for it, then or
\* later: the frames sent upstream never outnumber the client frames that
\* arrived while upstream was open.
C32_NotOpenAnswered ==
    /\ (/\ node.on /\ node.last.name = "NodeClientMessage"
         /\ node.client = "open"
         /\ ~(node.isConnected /\ node.upstream = "open")) =>
            /\ node.last.toClient = <<Frame("error", NotConnectedText, "none")>>
            /\ node.last.toUpstream = NoFrames
    /\ node.on => node.sentUp <= node.openArrivals

\* C33: with the upstream socket open, a client frame that is no JSON text is
\* sent upstream as it came and every other client frame has a frame sent
\* upstream for it; with the client socket open, an upstream frame carrying
\* audio has an audio frame sent to the client and every other upstream frame
\* has a frame sent to the client.
C33_FailOpen ==
    LET m == node.last.arg
    IN  /\ (/\ node.on /\ node.last.name = "NodeClientMessage"
             /\ node.isConnected /\ node.upstream = "open") =>
                /\ m.json \in {"invalid", "none"} => node.last.toUpstream = <<Raw(m)>>
                /\ node.last.toUpstream # NoFrames
        /\ (/\ node.on /\ node.last.name = "NodeUpstreamMessage"
             /\ node.client = "open") =>
                /\ (m.json = "object" /\ Or3(m.top, m.ae, m.data) # "") =>
                      /\ Len(node.last.toClient) = 1
                      /\ node.last.toClient[1] =
                            [type |-> "audio", audio_base_64 |-> Or3(m.top, m.ae, m.data),
                             mime |-> Or3(m.mTop, m.mAe, Or3(m.mData, DefaultMime, DefaultMime))]
                /\ node.last.toClient # NoFrames

\* C34: a request that overlapped no other and was answered 500 has left the
\* provider as it found it: it deleted no document and the store holds no
\* document it created (the agent is written only by a PATCH that succeeds,
\* which is answered 200).
C34_FailureLeavesStore ==
    hook.on =>
        \A r \in Requests :
            (/\ hook.req[r].pc = "done" /\ hook.req[r].status = "500"
             /\ ~hook.req[r].overlapped) =>
                /\ \A x \in hook.deleted : x.by # r
                /\ hook.req[r].created \notin hook.docs

\* C35: right after a request for a title is answered 200, no request having
\* overlapped another so far, the store holds exactly one document of that
\* title, whatever the list and delete requests answered.
C35_OneDocumentPerTitle ==
    (/\ hook.on /\ hook.last.name = "PatchRespond"
     /\ hook.req[hook.last.r].status = "200"
     /\ \A q \in Requests : ~hook.req[q].overlapped) =>
        Cardinality({d \in hook.docs : d.name = hook.req[hook.last.r].title}) = 1

\* C36: whatever the signature header of a POST /convai-hook request (none,
\* valid or not), the handler leaves the same state behind as for the same
\* body without the header: the same answer where it answers at once, the
\* same request in flight with the same list request sent where it goes on.
\* Nothing of the header is kept, so the later steps, which read that state
\* and the provider's answers only, are the same too.
C36_SignatureIgnored ==
    LET Observable(h) == [h EXCEPT !.last = [name |-> h.last.name, r |-> h.last.r]]
    IN  hook.on =>
          \A r \in Requests, body \in {"ok", "invalid", "noTitle", "noKnowledgeBase"},
             title \in Titles, sigHeader \in Sigs :
                hook.req[r].pc = "idle" =>
                    Observable(handle(r, body, title, sigHeader))
                        = Observable(handle(r, body, title, ""))

\* a request with a forged signature went on to the list request while the
\* other request was in flight
C36_Witness ==
    /\ hook.on
    /\ hook.last.name = "Post" /\ hook.last.sig = "t=1,v0=forged"
    /\ hook.req[hook.last.r].pc = "list"
    /\ \E q \in Requests : hook.req[q].pc = "patch"

\* C37: with the health check firing every 45 s after OPEN and no idle
\* timeout, the stats message is sent in no health check of the first 120 s
\* of the connection, in exactly one health check of every later 120-second
\* window of connection time (once the window is over), and never in two
\* health checks in a row. The k-th health check runs at k * 45 s.
C37_StatsCadence ==
    LET at(k) == k * HealthPeriod
        n == Len(checks)
        windows == 1..((at(n + 1) \div StatsWindow) - 1)
    IN  /\ \A k \in 1..n : at(k) < StatsWindow => ~checks[k]
        /\ \A w \in windows :
              Cardinality({k \in 1..n : /\ w * StatsWindow <= at(k)
                                         /\ at(k) < (w + 1) * StatsWindow
                                         /\ checks[k]}) = 1
        /\ \A k \in 1..(n - 1) : ~(checks[k] /\ checks[k + 1])
        /\ (last.name = "HealthTick" /\ n > 0) => now - connectionStartTime = at(n)

\* sixteen health checks: stats at 135 s, 270 s, 360 s, then the same 360 s on
C37_Witness ==
    /\ Len(checks) = 16
    /\ last.name = "HealthTick" /\ last.arg = "alive"
    /\ {k \in 1..16 : checks[k]} = {3, 6, 8, 11, 14, 16}

====
